---- MODULE Spec2Model ----
(***************************************************************************)
(* The incremental analysis pipeline of the X-Bookmarks Discord bot:       *)
(* /bookmark-digest (handleBookmarkDigest) fetches the new bookmarks,      *)
(* ClaudeAnalyzer.analyzeBookmarks sends them to the summarization         *)
(* service in batches under the TokenBucket budget, analyzeBatch retries   *)
(* once on status 429 and parses the response defensively, and             *)
(* BookmarkStore.saveAnalyses persists the results row by row.             *)
(*                                                                         *)
(* Time is in milliseconds and advances at the await points of the code    *)
(* (service calls and sleeps).  A service response is modelled by the      *)
(* value JSON.parse yields for its text (or by the failure to parse it).   *)
(***************************************************************************)
EXTENDS Integers, Sequences, FiniteSets, TLC

(* ---------------- program constants ---------------- *)
BATCH_SIZE == 5
TOKEN_LIMIT_PER_MINUTE == 5600
TOKEN_WINDOW_MS == 62000
SAFETY_MARGIN_MS == 2000
RETRY_WAIT_SECS == 65
OUTPUT_TOKENS_PER_BOOKMARK == 150
RATE_LIMIT_STATUS == 429

(* ---------------- bounds of the model ---------------- *)
MaxItems == 6
MaxRespLen == 6

(* Prompt lengths in characters, service latencies and timer overshoots in *)
(* ms, token usages reported by the service, statuses of a failed call.    *)
PromptLens == {10500, 21000}
Latencies == {1000, 63000}
Overshoots == {0, 40}
UsageChoices == {300, 6000}
ErrorStatuses == {RATE_LIMIT_STATUS, 500}

Max(a, b) == IF a >= b THEN a ELSE b
Min(a, b) == IF a <= b THEN a ELSE b

(* ---------------- values ---------------- *)
Undefined == "undefined"

Categories ==
  {"AI", "crypto", "marketing", "tools", "personal", "news", "content-ideas", "other"}

(* An element of the response array: JSON null, or an object whose absent  *)
(* fields read as undefined.                                               *)
Obj(c, a, s, k, act) ==
  [null |-> FALSE, category |-> c, isActionable |-> a, summary |-> s,
   keyTakeaway |-> k, action |-> act]

NullEntry ==
  [null |-> TRUE, category |-> Undefined, isActionable |-> Undefined,
   summary |-> Undefined, keyTakeaway |-> Undefined, action |-> Undefined]

GoodEntry == Obj("AI", "true", "title", "takeaway", "Read it")
UnknownCategoryEntry == Obj("finance", "true", "title", "takeaway", "Read it")
PartialEntry == Obj("tools", "true", Undefined, Undefined, "Try it")

Entries == {GoodEntry, UnknownCategoryEntry, PartialEntry, NullEntry}

SeqsUpTo(S, n) == UNION {[1..k -> S] : k \in 0..n}

(* A field of a parsed object: absent (or falsy), a truthy value that is   *)
(* no array, or an array.                                                  *)
Absent == [t |-> "absent", arr |-> <<>>]
NonArray == [t |-> "nonarray", arr |-> <<>>]
ArrayField(a) == [t |-> "array", arr |-> a]

(* The parsed response text.  kind: "invalid" (JSON.parse throws), "null", *)
(* "scalar" (number, string, boolean), "array" (bare list) or "object".    *)
Resp(kind, arr, b, r) == [kind |-> kind, arr |-> arr, bookmarks |-> b, results |-> r]

(* Every response shape, with arrays of up to MaxRespLen elements. *)
Responses ==
  {Resp("invalid", <<>>, Absent, Absent), Resp("null", <<>>, Absent, Absent),
   Resp("scalar", <<>>, Absent, Absent), Resp("object", <<>>, Absent, Absent),
   Resp("object", <<>>, NonArray, Absent), Resp("object", <<>>, Absent, NonArray)}
  \cup {Resp("array", a, Absent, Absent) : a \in SeqsUpTo(Entries, MaxRespLen)}
  \cup {Resp("object", <<>>, ArrayField(a), Absent) : a \in SeqsUpTo(Entries, MaxRespLen)}
  \cup {Resp("object", <<>>, Absent, ArrayField(a)) : a \in SeqsUpTo(Entries, MaxRespLen)}

(* The responses the service gives within a whole run. *)
RunResponses ==
  {Resp("invalid", <<>>, Absent, Absent),
   Resp("object", <<>>, ArrayField(<<>>), Absent),
   Resp("object", <<>>, ArrayField(<<GoodEntry>>), Absent),
   Resp("object", <<>>, ArrayField(<<GoodEntry, PartialEntry>>), Absent),
   Resp("array", <<UnknownCategoryEntry, NullEntry>>, Absent, Absent)}

(* ---------------- ClaudeAnalyzer: pure parts ---------------- *)

(* estimateTokens: Math.ceil(text.length / 3.5), on the prompt's length.   *)
estimateTokens(len) == (2 * len + 6) \div 7

EstimatedCost(len, n) == estimateTokens(len) + n * OUTPUT_TOKENS_PER_BOOKMARK

(* The three synthesized results of the code. *)
FailedFallback ==
  Obj("other", "false", "Analysis failed", "Could not analyze this bookmark.",
      "Unable to generate action")

PadFallback ==
  Obj("other", "false", "Unable to analyze",
      "Analysis was not available for this bookmark.", "No action identified")

BatchFallback ==
  Obj("other", "false", "text...", "Could not analyze this bookmark.",
      "No specific action identified")

(* JSON.parse throws on invalid text; reading .bookmarks of null throws.   *)
ParseThrows(resp) == resp.kind \in {"invalid", "null"}

(* Array.isArray(parsed) ? parsed : parsed.bookmarks || parsed.results || [] *)
FoundArray(resp) ==
  IF resp.kind = "array" THEN ArrayField(resp.arr)
  ELSE IF resp.kind = "scalar" THEN ArrayField(<<>>)
  ELSE IF resp.bookmarks.t # "absent" THEN resp.bookmarks
  ELSE IF resp.results.t # "absent" THEN resp.results
  ELSE ArrayField(<<>>)

PadToFront(arr, n) ==
  IF Len(arr) >= n THEN arr ELSE [j \in 1..(n - Len(arr)) |-> PadFallback] \o arr

(* while (arr.length < bookmarks.length) arr.push(fallback) *)
PadTo(arr, n) ==
  IF Len(arr) >= n THEN arr ELSE arr \o [j \in 1..(n - Len(arr)) |-> PadFallback]

parseResponse(resp, n) ==
  IF ParseThrows(resp) \/ FoundArray(resp).t # "array"
  THEN [j \in 1..n |-> FailedFallback]
  ELSE PadTo(FoundArray(resp).arr, n)

(* parsedResponses[idx] || { ...fallback } *)
ResultFor(parsed, idx) ==
  IF idx > Len(parsed) \/ parsed[idx].null THEN BatchFallback ELSE parsed[idx]

Analysis(id, e) ==
  [bookmarkId |-> id, category |-> e.category, isActionable |-> e.isActionable,
   summary |-> e.summary, keyTakeaway |-> e.keyTakeaway, action |-> e.action]

BatchAnalysesOverParsed(batch, resp) ==
  LET parsed == parseResponse(resp, Len(batch))
  IN [idx \in 1..Len(parsed) |->
        Analysis(IF idx <= Len(batch) THEN batch[idx] ELSE 0, ResultFor(parsed, idx))]

(* The analyses analyzeBatch returns for a batch (a sequence of ids) and a *)
(* response.                                                               *)
BatchAnalyses(batch, resp) ==
  [idx \in 1..Len(batch) |->
     Analysis(batch[idx], ResultFor(parseResponse(resp, Len(batch)), idx))]

ShouldRetryAlways(status) == TRUE

(* catch: e?.status === 429 *)
ShouldRetry(status) == status = RATE_LIMIT_STATUS

(* ---------------- TokenBucket: pure parts ---------------- *)

WindowExpired(el) == el >= TOKEN_WINDOW_MS

OverBudgetIgnoringEstimate(used, est) == used > TOKEN_LIMIT_PER_MINUTE

OverBudget(used, est) == used + est > TOKEN_LIMIT_PER_MINUTE

WaitMsNoMargin(el) == Max(TOKEN_WINDOW_MS - el, 0)

WaitMs(el) == Max(TOKEN_WINDOW_MS - el + SAFETY_MARGIN_MS, SAFETY_MARGIN_MS)

TokensAfterWaitKept(used) == used

TokensAfterWait(used) == 0

recordUsage(used, tokens) == used + tokens

(* ---------------- BookmarkStore: pure parts ---------------- *)

(* stmt.run binds category, summary, key_takeaway and action as they are   *)
(* (is_actionable goes through ?: and is always 0 or 1); better-sqlite3    *)
(* rejects an undefined parameter and the columns are NOT NULL.            *)
Bindable(a) ==
  /\ a.category # Undefined
  /\ a.summary # Undefined
  /\ a.keyTakeaway # Undefined
  /\ a.action # Undefined

(* INSERT OR REPLACE on the key bookmark_id (of one user). *)
Upsert(rows, a) == {r \in rows : r.bookmarkId # a.bookmarkId} \cup {a}

StoredIds(rows) == {r.bookmarkId : r \in rows}

(* ---------------- state ---------------- *)
VARIABLES
  pc,          \* position of the /bookmark-digest run
  now,         \* Date.now()
  bookmarks,   \* newBookmarks: the ids handed to analyzeBookmarks
  i,           \* loop variable of analyzeBookmarks
  prompt,      \* the prompt built for the current batch
  estimated,   \* estimatedInput + estimatedOutput of the current batch
  elapsed,     \* local of waitIfNeeded
  waitMs,      \* local of waitIfNeeded
  tokensUsed,  \* TokenBucket.tokensUsed
  windowStart, \* TokenBucket.windowStart
  allAnalyses, \* results collected so far
  inFlight,    \* service calls issued and not yet settled
  calls,       \* the service calls of the current batch, in order
  store,       \* rows of analyzed_bookmarks of the user
  saveIdx,     \* rows written by the running saveAnalyses
  error,       \* what made the run fail
  waited,      \* the current batch suspended in waitIfNeeded
  windowEsts,  \* estimated costs admitted since the window was last reset
  recorded,    \* batches whose usage has been recorded
  lastResp,    \* the response of the last completed batch
  usageLogged, \* UsageStore.logUsage has run
  reported,    \* the error embed shown to the user
  target,      \* analysisTarget
  source,      \* the user's bookmarks at the raw fetch collaborator
  fetchCount,  \* loop variable of the fetch loop
  fetched,     \* bookmarks: the result of the last fetch
  requests,    \* the counts requested from the collaborator, in order
  founds,      \* the number of new bookmarks found after each fetch
  diag,        \* the diagnostic text of the collaborator's failure
  run,         \* 1, or 2 when the fetch stage runs a second time
  firstNew,    \* the new bookmarks the first run of the stage found
  items,       \* the list refetchFullContent is called with
  lookups,     \* the single-item lookups issued so far, in order of issue
  out,         \* the list refetchFullContent returns
  auth,        \* enrichBookmarksWithUrls was given X auth tokens
  fetches,     \* the fetchUrlMetadata calls of the waves, in order of start
  enrichments, \* the map enrichBookmarksWithUrls returns, as id/lines pairs
  analyses,    \* the list buildDigestEmbeds is called with
  groupIdx,    \* position of buildDigestEmbeds in the sorted groups
  textIdx,     \* position in the item texts of the current group
  fieldValue,  \* the field being filled
  currentEmbed,  \* the embed being filled
  currentLength, \* the length buildDigestEmbeds counts for currentEmbed
  groups,      \* the category groups, sorted by groupByCategory
  itemTexts,   \* the item texts of the current group
  embeds,      \* the embeds pushed so far
  sent,        \* the embeds the caller posts
  inputText,   \* the text splitForField is called with
  chunks,      \* the chunks splitForField returns
  schedLog,    \* the digest runs so far: what each fetched, analysed and posted
  runs,        \* the digest runs in progress at overlapping times
  saved,       \* per user, the bookmarks the user's own runs have saved
  submitted,   \* the batches submitted to the service, by any run
  users,       \* the users table: tokens and schedule of each user
  ticks        \* the scheduler ticks fired so far and how far each has got

coreVars ==
  <<pc, now, bookmarks, i, prompt, estimated, elapsed, waitMs, tokensUsed,
    windowStart, allAnalyses, inFlight, calls, store, saveIdx, error, waited,
    windowEsts, recorded, lastResp>>

coreVarsButPc ==
  <<now, bookmarks, i, prompt, estimated, elapsed, waitMs, tokensUsed,
    windowStart, allAnalyses, inFlight, calls, store, saveIdx, error, waited,
    windowEsts, recorded, lastResp>>

handlerVars == <<usageLogged, reported>>
fetchVars == <<target, source, fetchCount, fetched, requests, founds, diag, run, firstNew>>
refetchVars == <<items, lookups, out>>
enrichVars == <<auth, fetches, enrichments>>
formatVars ==
  <<analyses, groups, groupIdx, itemTexts, textIdx, fieldValue, currentEmbed,
    currentLength, embeds, sent, inputText, chunks>>
schedVars == <<schedLog, runs, saved, submitted, users, ticks>>
stageVars == <<fetchVars, refetchVars, enrichVars, formatVars, schedVars>>

vars == <<coreVars, handlerVars, stageVars>>

bucketVars == <<tokensUsed, windowStart>>
batchVars == <<prompt, estimated, elapsed, waitMs, waited>>
saveVars == <<store, saveIdx>>

NoReport == [prefix |-> "none", message |-> "none"]

(* The stages that are not running hold their initial values. *)
HandlerIdle == usageLogged = FALSE /\ reported = NoReport

FetchIdle ==
  /\ target = 0
  /\ source = <<>>
  /\ fetchCount = 0
  /\ fetched = <<>>
  /\ requests = <<>>
  /\ founds = <<>>
  /\ diag = "none"
  /\ run = 1
  /\ firstNew = <<>>

RefetchIdle == items = <<>> /\ lookups = <<>> /\ out = <<>>

EnrichIdle == auth = FALSE /\ fetches = <<>> /\ enrichments = {}

NoField == [len |-> 0, chunks |-> <<>>]
NoEmbed == [title |-> 0, description |-> 0, fields |-> <<>>, footer |-> 0]

FormatIdle ==
  /\ analyses = <<>>
  /\ groups = <<>>
  /\ groupIdx = 0
  /\ itemTexts = <<>>
  /\ textIdx = 0
  /\ fieldValue = NoField
  /\ currentEmbed = NoEmbed
  /\ currentLength = 0
  /\ embeds = <<>>
  /\ sent = <<>>
  /\ inputText = <<>>
  /\ chunks = <<>>

SchedIdle ==
  /\ schedLog = <<>>
  /\ runs = <<>>
  /\ saved = <<>>
  /\ submitted = <<>>
  /\ users = <<>>
  /\ ticks = <<>>

NoPrompt == [ids |-> <<>>, len |-> 0]
NoResp == Resp("none", <<>>, Absent, Absent)

(* Ids are most-recent-first: a larger id is a newer bookmark. *)
IdsOf(n) == [j \in 1..n |-> 10 * (n - j + 1)]

Init ==
  /\ pc = "start"
  /\ now = 0
  /\ bookmarks = <<>>
  /\ i = 0
  /\ prompt = NoPrompt
  /\ estimated = 0
  /\ elapsed = 0
  /\ waitMs = 0
  /\ tokensUsed = 0
  /\ windowStart = 0
  /\ allAnalyses = <<>>
  /\ inFlight = 0
  /\ calls = <<>>
  /\ store = {}
  /\ saveIdx = 0
  /\ error = "none"
  /\ waited = FALSE
  /\ windowEsts = <<>>
  /\ recorded = 0
  /\ lastResp = NoResp
  /\ HandlerIdle
  /\ FetchIdle
  /\ RefetchIdle
  /\ EnrichIdle
  /\ FormatIdle
  /\ SchedIdle

(* ---------------- handleBookmarkDigest: fetch ---------------- *)

(* The raw fetch rejects; the catch block reports the error. *)
FetchFails ==
  /\ pc = "start"
  /\ pc' = "failed"
  /\ error' = "fetch"
  /\ UNCHANGED <<now, bookmarks, i, allAnalyses, inFlight, calls, recorded,
                 lastResp, windowEsts>>
  /\ UNCHANGED <<bucketVars, batchVars, saveVars>>
  /\ UNCHANGED <<handlerVars, stageVars>>

(* No new bookmark: "All caught up", the handler returns. *)
FetchNothingNew ==
  /\ pc = "start"
  /\ pc' = "done"
  /\ UNCHANGED <<now, bookmarks, i, allAnalyses, inFlight, calls, recorded,
                 lastResp, windowEsts, error>>
  /\ UNCHANGED <<bucketVars, batchVars, saveVars>>
  /\ UNCHANGED <<handlerVars, stageVars>>

(* n new bookmarks; analyzeBookmarks starts and constructs its TokenBucket. *)
FetchNew ==
  /\ pc = "start"
  /\ \E n \in 1..MaxItems : bookmarks' = IdsOf(n)
  /\ tokensUsed' = 0
  /\ windowStart' = now
  /\ i' = 0
  /\ pc' = "loop"
  /\ UNCHANGED <<now, allAnalyses, inFlight, calls, recorded, lastResp, windowEsts,
                 error>>
  /\ UNCHANGED <<batchVars, saveVars>>
  /\ UNCHANGED <<handlerVars, stageVars>>

(* ---------------- analyzeBookmarks: one batch ---------------- *)

LoopReadyNoAwait == pc \in {"loop", "call1"}

(* The loop takes its next batch only when the awaited analyzeBatch of the *)
(* previous one has returned.                                              *)
LoopReady == pc = "loop"

CurrentBatch == SubSeq(bookmarks, i + 1, Min(i + BATCH_SIZE, Len(bookmarks)))

(* Build the prompt, estimate its cost and run waitIfNeeded up to its      *)
(* sleep: roll an expired window over, then either return (admitted) or    *)
(* compute the wait and suspend.                                           *)
BatchStart ==
  /\ LoopReady
  /\ i < Len(bookmarks)
  /\ \E len \in PromptLens :
       LET est == EstimatedCost(len, Len(CurrentBatch))
           el == now - windowStart
           used == IF WindowExpired(el) THEN 0 ELSE tokensUsed
           ws == IF WindowExpired(el) THEN now ELSE windowStart
           ests == IF WindowExpired(el) THEN <<>> ELSE windowEsts
       IN /\ prompt' = [ids |-> CurrentBatch, len |-> len]
          /\ estimated' = est
          /\ elapsed' = el
          /\ tokensUsed' = used
          /\ windowStart' = ws
          /\ IF OverBudget(used, est)
             THEN /\ waitMs' = WaitMs(el)
                  /\ waited' = TRUE
                  /\ windowEsts' = ests
                  /\ pc' = "budget_wait"
             ELSE /\ waitMs' = 0
                  /\ waited' = FALSE
                  /\ windowEsts' = Append(ests, est)
                  /\ pc' = "admitted"
  /\ calls' = <<>>
  /\ UNCHANGED <<now, bookmarks, i, allAnalyses, inFlight, recorded, lastResp,
                 error>>
  /\ UNCHANGED saveVars
  /\ UNCHANGED <<handlerVars, stageVars>>

(* sleep(waitMs) ends, no earlier than asked; the window is reset and      *)
(* waitIfNeeded returns.                                                   *)
BudgetWake ==
  /\ pc = "budget_wait"
  /\ \E o \in Overshoots : now' = now + waitMs + o
  /\ tokensUsed' = TokensAfterWait(tokensUsed)
  /\ windowStart' = now'
  /\ windowEsts' = <<estimated>>
  /\ pc' = "admitted"
  /\ UNCHANGED <<bookmarks, i, allAnalyses, inFlight, calls, recorded, lastResp,
                 error>>
  /\ UNCHANGED <<batchVars, saveVars>>
  /\ UNCHANGED <<handlerVars, stageVars>>

NewCall == [prompt |-> prompt, at |-> now, status |-> 0, settled |-> 0]

(* analyzeBatch issues the first completions.create. *)
IssueCall ==
  /\ pc = "admitted"
  /\ inFlight' = inFlight + 1
  /\ calls' = Append(calls, NewCall)
  /\ pc' = "call1"
  /\ UNCHANGED <<now, bookmarks, i, allAnalyses, recorded, lastResp, windowEsts,
                 error>>
  /\ UNCHANGED <<bucketVars, batchVars, saveVars>>
  /\ UNCHANGED <<handlerVars, stageVars>>

Settle(cs, status, t) ==
  [cs EXCEPT ![Len(cs)] = [@ EXCEPT !.status = status, !.settled = t]]

(* A call succeeds: parse, build the analyses, record the usage, and       *)
(* either go on with the next batch or return to the handler, which starts *)
(* saveAnalyses.                                                           *)
CallSucceeds ==
  /\ pc \in {"call1", "call2"}
  /\ \E lat \in Latencies : now' = now + lat
  /\ inFlight' = inFlight - 1
  /\ calls' = Settle(calls, 200, now')
  /\ \E resp \in RunResponses, usage \in UsageChoices :
       /\ allAnalyses' = allAnalyses \o BatchAnalyses(CurrentBatch, resp)
       /\ tokensUsed' = recordUsage(tokensUsed, usage)
       /\ lastResp' = resp
  /\ recorded' = recorded + 1
  /\ i' = i + BATCH_SIZE
  /\ pc' = IF i' < Len(bookmarks) THEN "loop" ELSE "saving"
  /\ saveIdx' = 0
  /\ UNCHANGED <<bookmarks, windowStart, store, windowEsts, error>>
  /\ UNCHANGED batchVars
  /\ UNCHANGED <<handlerVars, stageVars>>

(* The first call rejects: status 429 leads to the 65 s sleep, any other   *)
(* error is rethrown and ends the run in the handler's catch block.        *)
Call1Fails ==
  /\ pc = "call1"
  /\ \E lat \in Latencies : now' = now + lat
  /\ inFlight' = inFlight - 1
  /\ \E st \in ErrorStatuses :
       /\ calls' = Settle(calls, st, now')
       /\ IF ShouldRetry(st)
          THEN pc' = "retry_wait" /\ error' = error
          ELSE pc' = "failed" /\ error' = "api"
  /\ UNCHANGED <<bookmarks, i, allAnalyses, recorded, lastResp, windowEsts>>
  /\ UNCHANGED <<bucketVars, batchVars, saveVars>>
  /\ UNCHANGED <<handlerVars, stageVars>>

(* sleep(65 s) ends and the identical request is issued again. *)
RetryWake ==
  /\ pc = "retry_wait"
  /\ \E o \in Overshoots : now' = now + RETRY_WAIT_SECS * 1000 + o
  /\ inFlight' = inFlight + 1
  /\ calls' = Append(calls, [NewCall EXCEPT !.at = now'])
  /\ pc' = "call2"
  /\ UNCHANGED <<bookmarks, i, allAnalyses, recorded, lastResp, windowEsts, error>>
  /\ UNCHANGED <<bucketVars, batchVars, saveVars>>
  /\ UNCHANGED <<handlerVars, stageVars>>

(* The retry rejects, with whatever status: the error propagates. *)
Call2Fails ==
  /\ pc = "call2"
  /\ \E lat \in Latencies : now' = now + lat
  /\ inFlight' = inFlight - 1
  /\ \E st \in ErrorStatuses :
       /\ calls' = Settle(calls, st, now')
       /\ error' = IF st = RATE_LIMIT_STATUS THEN "rate_limit" ELSE "api"
  /\ pc' = "failed"
  /\ UNCHANGED <<bookmarks, i, allAnalyses, recorded, lastResp, windowEsts>>
  /\ UNCHANGED <<bucketVars, batchVars, saveVars>>
  /\ UNCHANGED <<handlerVars, stageVars>>

(* ---------------- BookmarkStore.saveAnalyses ---------------- *)

NextRow == allAnalyses[saveIdx + 1]

(* One stmt.run of the loop inserts its row. *)
SaveRow ==
  /\ pc = "saving"
  /\ saveIdx < Len(allAnalyses)
  /\ Bindable(NextRow)
  /\ store' = Upsert(store, NextRow)
  /\ saveIdx' = saveIdx + 1
  /\ UNCHANGED <<pc, now, bookmarks, i, allAnalyses, inFlight, calls, recorded,
                 lastResp, windowEsts, error>>
  /\ UNCHANGED <<bucketVars, batchVars>>
  /\ UNCHANGED <<handlerVars, stageVars>>

(* stmt.run throws on a parameter it cannot bind; the rows written before  *)
(* stay, the handler's catch block reports the error.                      *)
SaveRowBindError ==
  /\ pc = "saving"
  /\ saveIdx < Len(allAnalyses)
  /\ ~Bindable(NextRow)
  /\ pc' = "failed"
  /\ error' = "bind"
  /\ UNCHANGED <<now, bookmarks, i, allAnalyses, inFlight, calls, recorded,
                 lastResp, windowEsts>>
  /\ UNCHANGED <<bucketVars, batchVars, saveVars>>
  /\ UNCHANGED <<handlerVars, stageVars>>

(* stmt.run throws because the database fails (disk full, locked). *)
SaveRowIoError ==
  /\ pc = "saving"
  /\ saveIdx < Len(allAnalyses)
  /\ pc' = "failed"
  /\ error' = "db"
  /\ UNCHANGED <<now, bookmarks, i, allAnalyses, inFlight, calls, recorded,
                 lastResp, windowEsts>>
  /\ UNCHANGED <<bucketVars, batchVars, saveVars>>
  /\ UNCHANGED <<handlerVars, stageVars>>

(* saveAnalyses returns; the handler logs the usage and sends the digest.  *)
SaveDone ==
  /\ pc = "saving"
  /\ saveIdx = Len(allAnalyses)
  /\ pc' = "done"
  /\ UNCHANGED <<now, bookmarks, i, allAnalyses, inFlight, calls, recorded,
                 lastResp, windowEsts, error>>
  /\ UNCHANGED <<bucketVars, batchVars, saveVars>>
  /\ usageLogged' = TRUE
  /\ UNCHANGED <<reported, stageVars>>

Next ==
  \/ FetchFails
  \/ FetchNothingNew
  \/ FetchNew
  \/ BatchStart
  \/ BudgetWake
  \/ IssueCall
  \/ CallSucceeds
  \/ Call1Fails
  \/ RetryWake
  \/ Call2Fails
  \/ SaveRow
  \/ SaveRowBindError
  \/ SaveRowIoError
  \/ SaveDone

Spec == Init /\ [][Next]_vars

(* ---------------- analyzeBatch on its own ---------------- *)

(* A batch of 1..BATCH_SIZE bookmarks and any response to it. *)
InitBatch ==
  /\ pc = "batch"
  /\ \E n \in 1..BATCH_SIZE : bookmarks = IdsOf(n)
  /\ lastResp \in Responses
  /\ now = 0
  /\ i = 0
  /\ prompt = NoPrompt
  /\ estimated = 0
  /\ elapsed = 0
  /\ waitMs = 0
  /\ tokensUsed = 0
  /\ windowStart = 0
  /\ allAnalyses = <<>>
  /\ inFlight = 0
  /\ calls = <<>>
  /\ store = {}
  /\ saveIdx = 0
  /\ error = "none"
  /\ waited = FALSE
  /\ windowEsts = <<>>
  /\ recorded = 0
  /\ HandlerIdle
  /\ FetchIdle
  /\ RefetchIdle
  /\ EnrichIdle
  /\ FormatIdle
  /\ SchedIdle

(* analyzeBatch from the response on: parseResponse and the map. *)
AnalyzeBatch ==
  /\ pc = "batch"
  /\ allAnalyses' = BatchAnalyses(bookmarks, lastResp)
  /\ pc' = "batch_done"
  /\ UNCHANGED <<now, bookmarks, i, inFlight, calls, recorded, lastResp, windowEsts,
                 error>>
  /\ UNCHANGED <<bucketVars, batchVars, saveVars>>
  /\ UNCHANGED <<handlerVars, stageVars>>

SpecBatch == InitBatch /\ [][AnalyzeBatch]_vars

(* ================= the fetch loop of /bookmark-digest ================= *)

MAX_FETCH == 200
MAX_TARGET == 100
MIN_FIRST_FETCH == 20
FETCH_MARGIN == 10
FETCH_GROWTH == 3

(* The largest number of bookmarks a user has at the collaborator. *)
MaxSource == 230

SourceSizes == {0, 15, 45, 130, MAX_FETCH, MaxSource}
AnalysedPrefixes == {5, 30, 150}
StderrTexts == {"Unauthorized", "Rate limit exceeded"}

Take(q, n) == SubSeq(q, 1, Min(n, Len(q)))

(* bird bookmarks -n count: the count most recent bookmarks, newest first. *)
fetchBookmarks(src, count) == Take(src, count)

BirdFailure(stderr) == [wrapper |-> "Bird CLI failed (exit code 1): ", stderr |-> stderr]

ReportedGeneric(err) ==
  [prefix |-> "Failed to generate digest:",
   message |-> [wrapper |-> "Unknown error", stderr |-> ""]]

Reported(err) == [prefix |-> "Failed to generate digest:", message |-> err]

FirstFetchCount(t) == Max(t + FETCH_MARGIN, MIN_FIRST_FETCH)

NextFetchCountNoCeiling(c) == c * FETCH_GROWTH

NextFetchCount(c) == Min(c * FETCH_GROWTH, MAX_FETCH)

hasBeenAnalyzed(rows, ids) == {ids[j] : j \in DOMAIN ids} \cap StoredIds(rows)

RowsAfterSelectMarking(rows, ids) ==
  rows \cup {Analysis(ids[j], GoodEntry) : j \in DOMAIN ids}

(* hasBeenAnalyzed only runs a SELECT: the rows are what they were. *)
RowsAfterSelect(rows, ids) == rows

NewBookmarks(list, rows, t) ==
  LET alreadyAnalyzed == hasBeenAnalyzed(rows, list)
  IN  Take(SelectSeq(list, LAMBDA b : b \notin alreadyAnalyzed), t)

LoopBreaksOnAnyNew(new, t, count) == Len(new) >= 1 \/ count >= MAX_FETCH

LoopBreaks(new, t, count) == Len(new) >= t \/ count >= MAX_FETCH

RowsFor(ids) == {Analysis(ids[j], GoodEntry) : j \in DOMAIN ids}

StoresOf(src) ==
  {{}, RowsFor(src)}
    \cup {RowsFor(Take(src, k)) : k \in AnalysedPrefixes}
    \cup {{Analysis(src[j], GoodEntry) : j \in {m \in DOMAIN src : m % 10 # 0}}}

InitFetch ==
  /\ pc = "start"
  /\ now = 0
  /\ bookmarks = <<>>
  /\ i = 0
  /\ prompt = NoPrompt
  /\ estimated = 0
  /\ elapsed = 0
  /\ waitMs = 0
  /\ tokensUsed = 0
  /\ windowStart = 0
  /\ allAnalyses = <<>>
  /\ inFlight = 0
  /\ calls = <<>>
  /\ saveIdx = 0
  /\ error = "none"
  /\ waited = FALSE
  /\ windowEsts = <<>>
  /\ recorded = 0
  /\ lastResp = NoResp
  /\ HandlerIdle
  /\ target \in 1..MAX_TARGET
  /\ \E n \in SourceSizes : source = IdsOf(n)
  /\ store \in StoresOf(source)
  /\ fetchCount = 0
  /\ fetched = <<>>
  /\ requests = <<>>
  /\ founds = <<>>
  /\ diag = "none"
  /\ run = 1
  /\ firstNew = <<>>
  /\ RefetchIdle
  /\ EnrichIdle
  /\ FormatIdle
  /\ SchedIdle

fetchIdle == <<now, i, prompt, estimated, elapsed, waitMs, tokensUsed, windowStart,
               inFlight, calls, saveIdx, waited, windowEsts, recorded, lastResp>>

(* The loop's initialiser and its first call of fetchBookmarks. *)
FetchLoopStart ==
  /\ pc = "start"
  /\ fetchCount' = FirstFetchCount(target)
  /\ requests' = <<FirstFetchCount(target)>>
  /\ pc' = "fetching"
  /\ UNCHANGED <<bookmarks, allAnalyses, store, error, fetchIdle, handlerVars>>
  /\ UNCHANGED <<target, source, fetched, founds, diag, run, firstNew>>
  /\ UNCHANGED <<refetchVars, enrichVars, formatVars, schedVars>>

(* fetchBookmarks resolves: filter, slice, and break or fetch again. *)
FetchReturns ==
  /\ pc = "fetching"
  /\ LET list == fetchBookmarks(source, fetchCount)
         new  == NewBookmarks(list, store, target)
     IN  /\ fetched' = list
         /\ store' = RowsAfterSelect(store, list)
         /\ bookmarks' = new
         /\ founds' = Append(founds, Len(new))
         /\ IF LoopBreaks(new, target, fetchCount)
              THEN /\ pc' = IF Len(new) = 0 THEN "caught_up" ELSE "fetched"
                   /\ UNCHANGED <<fetchCount, requests>>
              ELSE /\ fetchCount' = NextFetchCount(fetchCount)
                   /\ requests' = Append(requests, NextFetchCount(fetchCount))
                   /\ pc' = "fetching"
  /\ UNCHANGED <<allAnalyses, error, fetchIdle, handlerVars>>
  /\ UNCHANGED <<target, source, diag, run, firstNew>>
  /\ UNCHANGED <<refetchVars, enrichVars, formatVars, schedVars>>

(* fetchBookmarks rejects: the handler's catch block reports the message. *)
FetchRejects ==
  /\ pc = "fetching"
  /\ \E text \in StderrTexts :
       /\ diag' = text
       /\ reported' = Reported(BirdFailure(text))
  /\ error' = "fetch"
  /\ pc' = "failed"
  /\ UNCHANGED <<bookmarks, allAnalyses, store, fetchIdle, usageLogged>>
  /\ UNCHANGED <<target, source, fetchCount, fetched, requests, founds, run, firstNew>>
  /\ UNCHANGED <<refetchVars, enrichVars, formatVars, schedVars>>

(* The rest of a successful run: analysis, persistence, usage logging. *)
AnalyzeAndPersist ==
  /\ pc = "fetched"
  /\ allAnalyses' = [j \in DOMAIN bookmarks |-> Analysis(bookmarks[j], GoodEntry)]
  /\ store' = store \cup RowsFor(bookmarks)
  /\ usageLogged' = TRUE
  /\ pc' = "done"
  /\ UNCHANGED <<bookmarks, error, fetchIdle, reported, fetchVars>>
  /\ UNCHANGED <<refetchVars, enrichVars, formatVars, schedVars>>

(* The stage runs again over the same source with the store untouched. *)
FetchStageAgain ==
  /\ pc \in {"fetched", "caught_up"}
  /\ run = 1
  /\ run' = 2
  /\ firstNew' = bookmarks
  /\ pc' = "start"
  /\ bookmarks' = <<>>
  /\ fetched' = <<>>
  /\ fetchCount' = 0
  /\ requests' = <<>>
  /\ founds' = <<>>
  /\ UNCHANGED <<allAnalyses, store, error, fetchIdle, handlerVars>>
  /\ UNCHANGED <<target, source, diag>>
  /\ UNCHANGED <<refetchVars, enrichVars, formatVars, schedVars>>

NextFetch ==
  \/ FetchLoopStart
  \/ FetchReturns
  \/ FetchRejects
  \/ AnalyzeAndPersist
  \/ FetchStageAgain

SpecFetch == InitFetch /\ [][NextFetch]_vars

(* ================= refetchFullContent ================= *)

LOOKUP_TIMEOUT_MS == 15000

(* The longest list handed to refetchFullContent. *)
MaxStubItems == 3

Never == -1

(* A text is its sequence of tokens after trim(): a t.co link matches      *)
(* https?://t.co/\w+, a word is any other run of non-space characters.     *)
StubText == <<"tco_link">>
FullText == <<"word", "word">>
Texts == {StubText, <<"word", "tco_link">>, <<"tco_link", "tco_link">>, <<"word">>}

(* Engagement counters of the list fetch and of the single-item lookup;   *)
(* likeCount stands for the four counters, which are merged alike.         *)
ListLikes == {0, 7}
LookupLikes == {0, 3}

Item(id, text, likes) == [id |-> id, text |-> text, likeCount |-> likes]
NoItem == Item(0, <<>>, 0)

ItemLists ==
  UNION {{[j \in 1..n |-> Item(IdsOf(n)[j], f[j][1], f[j][2])] :
            f \in [1..n -> Texts \X ListLikes]} : n \in 1..MaxStubItems}

(* What a bird read worker does when left alone: the time it takes to     *)
(* exit (Never when it hangs), its exit code and the counter it prints.    *)
Workers ==
  {[exit |-> 3000, code |-> 0, likes |-> l] : l \in LookupLikes}
    \cup {[exit |-> 3000, code |-> 1, likes |-> 0],
          [exit |-> 20000, code |-> 0, likes |-> 0],
          [exit |-> Never, code |-> 0, likes |-> 0]}

stubPattern(text) == Len(text) = 1 /\ text[1] = "tco_link"

Stubs(list) == SelectSeq(list, LAMBDA b : stubPattern(b.text))

(* fetchBookmarkById: the 15 s timer kills the worker and rejects unless   *)
(* the worker has closed before; a non-zero exit code rejects as well.     *)
TimerFiresFirst(w) == w.exit = Never \/ w.exit > LOOKUP_TIMEOUT_MS

SettleAfter(w) == IF TimerFiresFirst(w) THEN LOOKUP_TIMEOUT_MS ELSE w.exit

SettleStatus(w) ==
  IF TimerFiresFirst(w) \/ w.code # 0 THEN "rejected" ELSE "fulfilled"

LookedUp(id, w) == Item(id, FullText, w.likes)

Pending(ls) == {k \in DOMAIN ls : ls[k].status = "pending"}

PreviousSettledNoAwait(ls) == TRUE

(* The await of the loop body: the next lookup waits for the one before.   *)
PreviousSettled(ls) == Pending(ls) = {}

RefetchAbortsOnRejected(status) == status = "rejected"

(* .catch turns a rejection into a settled result: nothing is thrown.      *)
RefetchAborts(status) == FALSE

MergeLookupOnly(stub, value) == value

(* The looked-up item with the stub's counters where the stub has them.    *)
Merge(stub, value) ==
  [value EXCEPT !.likeCount =
     IF stub.likeCount # 0 THEN stub.likeCount ELSE value.likeCount]

(* bookmarks.map((b) => fullContentMap.get(b.id) ?? b) *)
Replace(list, stubs, ls) ==
  [j \in DOMAIN list |->
     LET hits == {k \in DOMAIN ls : ls[k].status = "fulfilled" /\ stubs[k].id = list[j].id}
     IN  IF hits = {} THEN list[j]
         ELSE LET k == CHOOSE m \in hits : \A h \in hits : h <= m
              IN  Merge(stubs[k], ls[k].value)]

InitRefetch ==
  /\ pc = "refetch"
  /\ now = 0
  /\ bookmarks = <<>>
  /\ i = 0
  /\ prompt = NoPrompt
  /\ estimated = 0
  /\ elapsed = 0
  /\ waitMs = 0
  /\ tokensUsed = 0
  /\ windowStart = 0
  /\ allAnalyses = <<>>
  /\ inFlight = 0
  /\ calls = <<>>
  /\ store = {}
  /\ saveIdx = 0
  /\ error = "none"
  /\ waited = FALSE
  /\ windowEsts = <<>>
  /\ recorded = 0
  /\ lastResp = NoResp
  /\ HandlerIdle
  /\ FetchIdle
  /\ items \in ItemLists
  /\ lookups = <<>>
  /\ out = <<>>
  /\ EnrichIdle
  /\ FormatIdle
  /\ SchedIdle

refetchIdle == <<bookmarks, i, prompt, estimated, elapsed, waitMs, tokensUsed,
                 windowStart, inFlight, calls, store, saveIdx, waited, windowEsts,
                 recorded, handlerVars, fetchVars, enrichVars, formatVars,
                 schedVars>>

(* No stub in the list: the list itself is returned. *)
RefetchNoStubs ==
  /\ pc = "refetch"
  /\ Stubs(items) = <<>>
  /\ out' = items
  /\ pc' = "refetched"
  /\ UNCHANGED <<now, allAnalyses, error, lastResp, items, lookups, refetchIdle>>

(* fetchBookmarkById is called for the next stub: a worker is spawned. *)
LookupStart ==
  /\ pc = "refetch"
  /\ Len(lookups) < Len(Stubs(items))
  /\ PreviousSettled(lookups)
  /\ \E w \in Workers :
       lookups' = Append(lookups,
         [id |-> Stubs(items)[Len(lookups) + 1].id, start |-> now, worker |-> w,
          status |-> "pending", end |-> Never, value |-> NoItem])
  /\ UNCHANGED <<pc, now, allAnalyses, error, lastResp, items, out, refetchIdle>>

(* The worker closes or the timer fires: the lookup settles. *)
LookupSettles ==
  /\ pc = "refetch"
  /\ \E k \in Pending(lookups) :
       LET l      == lookups[k]
           status == SettleStatus(l.worker)
           end    == l.start + SettleAfter(l.worker)
       IN  /\ lookups' = [lookups EXCEPT ![k] =
                 [l EXCEPT !.status = status, !.end = end,
                    !.value = IF status = "fulfilled" THEN LookedUp(l.id, l.worker)
                                                      ELSE NoItem]]
           /\ now' = Max(now, end)
           /\ IF RefetchAborts(status)
                THEN pc' = "failed" /\ error' = "refetch"
                ELSE UNCHANGED <<pc, error>>
  /\ UNCHANGED <<allAnalyses, lastResp, items, out, refetchIdle>>

(* Every stub has been looked up: build the map and the returned list. *)
RefetchReturns ==
  /\ pc = "refetch"
  /\ Stubs(items) # <<>>
  /\ Len(lookups) = Len(Stubs(items))
  /\ PreviousSettled(lookups)
  /\ out' = Replace(items, Stubs(items), lookups)
  /\ pc' = "refetched"
  /\ UNCHANGED <<now, allAnalyses, error, lastResp, items, lookups, refetchIdle>>

(* The pipeline goes on: the returned items are analysed as one batch. *)
AnalyzeRefetched ==
  /\ pc = "refetched"
  /\ \E resp \in RunResponses :
       /\ lastResp' = resp
       /\ allAnalyses' = BatchAnalyses([j \in DOMAIN out |-> out[j].id], resp)
  /\ pc' = "done"
  /\ UNCHANGED <<now, error, items, lookups, out, refetchIdle>>

NextRefetch ==
  \/ RefetchNoStubs
  \/ LookupStart
  \/ LookupSettles
  \/ RefetchReturns
  \/ AnalyzeRefetched

SpecRefetch == InitRefetch /\ [][NextRefetch]_vars

(* ================= enrichBookmarksWithUrls ================= *)

WAVE_SIZE == 5
MAX_REDIRECTS == 5

(* The longest list handed to enrichBookmarksWithUrls. *)
MaxEnrichItems == 2

Url(host, path) == [scheme |-> "https", host |-> host, path |-> path]

PAGE == Url("a.example", "page")
SHORT_TO_PAGE == Url("t.co", "r1")
SHORT_TO_STATUS == Url("t.co", "r2")
STATUS == Url("x.com", "status")
LOOP == Url("loop.example", "page")
DOWN == Url("down.example", "page")
INVALID == Url("", "invalid")
NO_META == Url("big.example", "page")
SHORT_TO_APP == Url("t.co", "r3")
APP_LINK == [scheme |-> "intent", host |-> "open.app", path |-> "page"]

(* http.get and https.get take URLs of their own protocol only. *)
HttpScheme(u) == u.scheme \in {"http", "https"}

X_STATUS_PATTERN(u) == u.host \in {"x.com", "twitter.com"} /\ u.path = "status"

(* What the network answers to a GET of a URL. *)
Site(u) ==
  CASE u = PAGE            -> [kind |-> "html", to |-> u, title |-> "A page",
                               description |-> "About a page"]
    [] u = SHORT_TO_PAGE   -> [kind |-> "redirect", to |-> PAGE, title |-> "null",
                               description |-> "null"]
    [] u = SHORT_TO_STATUS -> [kind |-> "redirect", to |-> STATUS, title |-> "null",
                               description |-> "null"]
    [] u = SHORT_TO_APP    -> [kind |-> "redirect", to |-> APP_LINK, title |-> "null",
                               description |-> "null"]
    [] u = STATUS          -> [kind |-> "html", to |-> u, title |-> "Log in to X",
                               description |-> "null"]
    [] u = LOOP            -> [kind |-> "redirect", to |-> LOOP, title |-> "null",
                               description |-> "null"]
    [] u = NO_META         -> [kind |-> "html", to |-> u, title |-> "null",
                               description |-> "null"]
    [] OTHER               -> [kind |-> "error", to |-> u, title |-> "null",
                               description |-> "null"]

(* The url entities and the URLs in the text of the items of an input. *)
ItemUrls ==
  {[urls |-> <<SHORT_TO_PAGE, PAGE, SHORT_TO_STATUS>>, textUrls |-> <<>>],
   [urls |-> <<STATUS, LOOP, DOWN, INVALID>>, textUrls |-> <<>>],
   [urls |-> <<>>, textUrls |-> <<SHORT_TO_PAGE, PAGE>>],
   [urls |-> <<PAGE, PAGE>>, textUrls |-> <<SHORT_TO_STATUS>>],
   [urls |-> <<>>, textUrls |-> <<>>],
   [urls |-> <<DOWN>>, textUrls |-> <<>>],
   [urls |-> <<NO_META, INVALID>>, textUrls |-> <<>>],
   [urls |-> <<SHORT_TO_APP>>, textUrls |-> <<>>]}

EnrichLists ==
  UNION {{[j \in 1..n |-> [id |-> IdsOf(n)[j], urls |-> f[j].urls,
                           textUrls |-> f[j].textUrls]] :
            f \in [1..n -> ItemUrls]} : n \in 1..MaxEnrichItems}

(* bird read workers of the status-URL path. *)
StatusWorkers ==
  {[exit |-> 3000, code |-> 0, likes |-> 0],
   [exit |-> 3000, code |-> 1, likes |-> 0],
   [exit |-> 20000, code |-> 0, likes |-> 0],
   [exit |-> Never, code |-> 0, likes |-> 0]}

extractUrls(b) == IF Len(b.urls) > 0 THEN b.urls ELSE b.textUrls

RECURSIVE Flat(_)
Flat(list) ==
  IF list = <<>> THEN <<>> ELSE extractUrls(Head(list)) \o Flat(Tail(list))

RECURSIVE Distinct(_)
Distinct(q) ==
  IF q = <<>> THEN <<>>
  ELSE LET rest == Distinct(SubSeq(q, 1, Len(q) - 1))
           last == q[Len(q)]
       IN  IF \E j \in DOMAIN rest : rest[j] = last THEN rest ELSE Append(rest, last)

allUrlsWithRepeats(list) == Flat(list)

(* [...new Set([...urlsByBookmark.values()].flat())] *)
allUrls(list) == Distinct(Flat(list))

Meta(domain, title, description) ==
  [domain |-> domain, title |-> title, description |-> description]
NoMeta == Meta("none", "null", "null")

(* fetchUrlMetadata up to its first suspension: a bird read worker for a   *)
(* status URL when tokens are given, nothing for an unparsable URL, an     *)
(* HTTP request otherwise. For a URL of another scheme client.get throws   *)
(* inside the promise executor: the call rejects, and the fetch that       *)
(* followed a redirect to it is never resolved.                            *)
Begin(origin, cur, left, reqs, wv, lk) ==
  IF X_STATUS_PATTERN(cur) /\ auth
    THEN [url |-> origin, wave |-> wv, cur |-> cur, left |-> left, reqs |-> reqs,
          state |-> "bird", meta |-> NoMeta, lookup |-> lk]
    ELSE IF cur = INVALID
      THEN [url |-> origin, wave |-> wv, cur |-> cur, left |-> left, reqs |-> reqs,
            state |-> "settled", meta |-> Meta("unknown", "null", "null"), lookup |-> 0]
      ELSE IF ~HttpScheme(cur)
      THEN [url |-> origin, wave |-> wv, cur |-> cur, left |-> left, reqs |-> reqs,
            state |-> "thrown", meta |-> NoMeta, lookup |-> 0]
      ELSE [url |-> origin, wave |-> wv, cur |-> cur, left |-> left, reqs |-> reqs + 1,
            state |-> "http", meta |-> NoMeta, lookup |-> 0]

NoUrl == Url("", "undefined")

OriginIsCurrent(originalUrl, url) == url

(* const origin = originalUrl || url *)
Origin(originalUrl, url) == IF originalUrl = NoUrl THEN url ELSE originalUrl

Unsettled(fs) == {k \in DOMAIN fs : fs[k].state # "settled"}

WaveSettledNoAwait(fs) == TRUE

(* await Promise.all(...): the loop goes on when the whole wave settled.   *)
WaveSettled(fs) == Unsettled(fs) = {}

NewLookup(id, w) ==
  [id |-> id, start |-> now, worker |-> w, status |-> "pending", end |-> Never,
   value |-> NoItem]

(* The lines of one item: one per URL of the item that has metadata. *)
Lines(b, fs) ==
  LET urls == extractUrls(b)
      known == {j \in DOMAIN urls : \E k \in DOMAIN fs : fs[k].url = urls[j]}
  IN  [j \in known |-> (CHOOSE m \in {fs[k].meta : k \in {h \in DOMAIN fs : fs[h].url = urls[j]}} : TRUE)]

Enrichments(list, fs) ==
  {[id |-> list[j].id, lines |-> Lines(list[j], fs)] :
     j \in {h \in DOMAIN list : Len(extractUrls(list[h])) > 0 /\ DOMAIN Lines(list[h], fs) # {}}}

InitEnrich ==
  /\ pc = "enrich"
  /\ now = 0
  /\ bookmarks = <<>>
  /\ i = 0
  /\ prompt = NoPrompt
  /\ estimated = 0
  /\ elapsed = 0
  /\ waitMs = 0
  /\ tokensUsed = 0
  /\ windowStart = 0
  /\ allAnalyses = <<>>
  /\ inFlight = 0
  /\ calls = <<>>
  /\ store = {}
  /\ saveIdx = 0
  /\ error = "none"
  /\ waited = FALSE
  /\ windowEsts = <<>>
  /\ recorded = 0
  /\ lastResp = NoResp
  /\ HandlerIdle
  /\ FetchIdle
  /\ items \in EnrichLists
  /\ lookups = <<>>
  /\ out = <<>>
  /\ auth \in BOOLEAN
  /\ fetches = <<>>
  /\ enrichments = {}
  /\ FormatIdle
  /\ SchedIdle

enrichIdle == <<bookmarks, i, prompt, estimated, elapsed, waitMs, tokensUsed,
                windowStart, allAnalyses, inFlight, calls, store, saveIdx, error,
                waited, windowEsts, recorded, lastResp, handlerVars, fetchVars,
                items, out, auth, formatVars, schedVars>>

(* One pass of the loop: the next five URLs are all started at once. *)
WaveStart ==
  /\ pc = "enrich"
  /\ Len(fetches) < Len(allUrls(items))
  /\ WaveSettled(fetches)
  /\ LET all   == allUrls(items)
         from  == Len(fetches) + 1
         batch == SubSeq(all, from, Min(from + WAVE_SIZE - 1, Len(all)))
         wv    == (Len(fetches) \div WAVE_SIZE) + 1
         begun == [j \in DOMAIN batch |->
                     Begin(Origin(NoUrl, batch[j]), batch[j], MAX_REDIRECTS, 0, wv,
                           Len(lookups) + 1)]
     IN  /\ fetches' = fetches \o begun
         /\ IF \E j \in DOMAIN begun : begun[j].state = "bird"
              THEN \E w \in StatusWorkers : lookups' = Append(lookups, NewLookup(1, w))
              ELSE UNCHANGED lookups
  /\ UNCHANGED <<pc, now, enrichments, enrichIdle>>

(* The response of a fetch's HTTP request arrives, or the request fails. *)
FetchResponds ==
  /\ pc = "enrich"
  /\ \E k \in DOMAIN fetches :
       /\ fetches[k].state = "http"
       /\ LET f    == fetches[k]
              site == Site(f.cur)
          IN  IF site.kind = "redirect" /\ f.left > 0
                THEN LET g == Begin(Origin(f.url, site.to), site.to, f.left - 1, f.reqs, f.wave,
                                    Len(lookups) + 1)
                     IN  /\ fetches' = [fetches EXCEPT ![k] = g]
                         /\ IF g.state = "bird"
                              THEN \E w \in StatusWorkers :
                                     lookups' = Append(lookups, NewLookup(1, w))
                              ELSE UNCHANGED lookups
                ELSE /\ fetches' = [fetches EXCEPT ![k] =
                          [f EXCEPT !.state = "settled",
                             !.meta = IF site.kind = "error"
                                        THEN Meta("unknown", "null", "null")
                                        ELSE Meta(f.cur.host, site.title,
                                                  site.description)]]
                     /\ UNCHANGED lookups
  /\ UNCHANGED <<pc, now, enrichments, enrichIdle>>

(* The bird read worker of a status URL closes: its fetch resolves. *)
StatusLookupCloses ==
  /\ pc = "enrich"
  /\ \E k \in DOMAIN fetches :
       /\ fetches[k].state = "bird"
       /\ LET f == fetches[k]
              l == lookups[f.lookup]
          IN  /\ l.worker.exit # Never
              /\ lookups' = [lookups EXCEPT ![f.lookup] =
                   [l EXCEPT !.status = IF l.worker.code = 0 THEN "fulfilled" ELSE "rejected",
                      !.end = l.start + l.worker.exit]]
              /\ now' = Max(now, l.start + l.worker.exit)
              /\ fetches' = [fetches EXCEPT ![k] =
                   [f EXCEPT !.state = "settled",
                      !.meta = IF l.worker.code = 0
                                 THEN Meta("x.com", "tweet", "tweet text")
                                 ELSE Meta("x.com", "null", "null")]]
  /\ UNCHANGED <<pc, enrichments, enrichIdle>>

(* Every wave is done: the enrichment strings are built and returned. *)
EnrichReturns ==
  /\ pc = "enrich"
  /\ Len(fetches) >= Len(allUrls(items))
  /\ WaveSettled(fetches)
  /\ enrichments' = Enrichments(items, fetches)
  /\ pc' = "enriched"
  /\ UNCHANGED <<now, lookups, fetches, enrichIdle>>

NextEnrich ==
  \/ WaveStart
  \/ FetchResponds
  \/ StatusLookupCloses
  \/ EnrichReturns

SpecEnrich == InitEnrich /\ [][NextEnrich]_vars

(* ================= DigestFormatter ================= *)

MAX_FIELD_LENGTH == 1024
MAX_EMBED_TOTAL == 5800
MAX_KEY_TAKEAWAY_LENGTH == 700
MAX_ACTION_LENGTH == 180
MAX_ACTIONS == 5
ELLIPSIS_LENGTH == 3

(* The most lines of a text handed to splitForField on its own. *)
MaxLines == 4

(* A text is the sequence of its lines, without the newlines between them. *)
(* A line is known by its tag and its full length; a piece of it by the    *)
(* offset and the number of characters it holds; dots tells the characters *)
(* of an ellipsis that follow them.                                        *)
Line(tag, n) == [tag |-> tag, of |-> n, off |-> 0, len |-> n, dots |-> 0]
Blank == Line("blank", 0)

Chars(l) == l.len + l.dots

RECURSIVE SumChars(_)
SumChars(lines) == IF lines = <<>> THEN 0 ELSE Chars(Head(lines)) + SumChars(Tail(lines))

TextLenWithoutNewlines(lines) == SumChars(lines)

(* text.length *)
TextLen(lines) == IF lines = <<>> THEN 0 ELSE SumChars(lines) + Len(lines) - 1

(* text.trim().length > 0: lines are taken to hold no spaces. *)
HasInk(lines) == \E j \in DOMAIN lines : Chars(lines[j]) > 0

RECURSIVE TrimEnd(_)
TrimEnd(lines) ==
  IF lines = <<>> THEN <<>>
  ELSE IF Chars(lines[Len(lines)]) = 0 THEN TrimEnd(SubSeq(lines, 1, Len(lines) - 1))
  ELSE lines

(* truncateText of a one-line text. *)
truncateText(l, maxLength) ==
  IF l.len <= maxLength THEN l
  ELSE [l EXCEPT !.len = Max(0, maxLength - ELLIPSIS_LENGTH), !.dots = ELLIPSIS_LENGTH]

pushCurrent(cs, current) ==
  IF HasInk(current) THEN Append(cs, TrimEnd(current)) ELSE cs

(* The number of slices of maxLength the while loop cuts off a line. *)
Slices(l, maxLength) == (l.len - 1) \div maxLength

HardSplit(l, maxLength) ==
  [j \in 1..Slices(l, maxLength) |->
     <<[l EXCEPT !.off = l.off + (j - 1) * maxLength, !.len = maxLength]>>]

Remaining(l, maxLength) ==
  [l EXCEPT !.off = l.off + Slices(l, maxLength) * maxLength,
            !.len = l.len - Slices(l, maxLength) * maxLength]

(* current.length > 0 ? `${current}\n${line}` : line *)
Joined(current, line) == IF TextLen(current) > 0 THEN Append(current, line) ELSE <<line>>

FitsAlone(line, maxLength) == line.len <= maxLength

RECURSIVE SplitFrom(_, _, _, _, _)
SplitFrom(lines, k, cs, current, maxLength) ==
  IF k > Len(lines) THEN pushCurrent(cs, current)
  ELSE LET line      == lines[k]
           candidate == Joined(current, line)
       IN  IF TextLen(candidate) <= maxLength
             THEN SplitFrom(lines, k + 1, cs, candidate, maxLength)
             ELSE IF FitsAlone(line, maxLength)
               THEN SplitFrom(lines, k + 1, pushCurrent(cs, current), <<line>>, maxLength)
               ELSE SplitFrom(lines, k + 1,
                              pushCurrent(cs, current) \o HardSplit(line, maxLength),
                              <<Remaining(line, maxLength)>>, maxLength)

(* The fallback for a text of blank lines only: its first characters and   *)
(* an ellipsis.                                                            *)
Truncated(lines, maxLength) ==
  <<[tag |-> "blank", of |-> TextLen(lines), off |-> 0,
     len |-> Max(0, maxLength - ELLIPSIS_LENGTH), dots |-> ELLIPSIS_LENGTH]>>

splitForField(lines, maxLength) ==
  IF TextLen(lines) <= maxLength THEN <<lines>>
  ELSE LET cs == SplitFrom(lines, 1, <<>>, <<>>, maxLength)
       IN  IF Len(cs) > 0 THEN cs ELSE <<Truncated(lines, maxLength)>>

LineLens == {0, 1, 340, 683, 1023, MAX_FIELD_LENGTH, 1025, 2048, 2500}

Texts4Split ==
  UNION {{[j \in 1..n |-> Line(j, f[j])] : f \in [1..n -> LineLens]} : n \in 1..MaxLines}

InitSplit ==
  /\ pc = "split"
  /\ now = 0
  /\ bookmarks = <<>>
  /\ i = 0
  /\ prompt = NoPrompt
  /\ estimated = 0
  /\ elapsed = 0
  /\ waitMs = 0
  /\ tokensUsed = 0
  /\ windowStart = 0
  /\ allAnalyses = <<>>
  /\ inFlight = 0
  /\ calls = <<>>
  /\ store = {}
  /\ saveIdx = 0
  /\ error = "none"
  /\ waited = FALSE
  /\ windowEsts = <<>>
  /\ recorded = 0
  /\ lastResp = NoResp
  /\ HandlerIdle
  /\ FetchIdle
  /\ RefetchIdle
  /\ EnrichIdle
  /\ SchedIdle
  /\ analyses = <<>>
  /\ groups = <<>>
  /\ groupIdx = 0
  /\ itemTexts = <<>>
  /\ textIdx = 0
  /\ fieldValue = NoField
  /\ currentEmbed = NoEmbed
  /\ currentLength = 0
  /\ embeds = <<>>
  /\ sent = <<>>
  /\ inputText \in Texts4Split
  /\ chunks = <<>>

Split ==
  /\ pc = "split"
  /\ chunks' = splitForField(inputText, MAX_FIELD_LENGTH)
  /\ pc' = "split_done"
  /\ UNCHANGED <<coreVarsButPc, handlerVars, fetchVars, refetchVars, enrichVars, schedVars>>
  /\ UNCHANGED <<analyses, groups, groupIdx, itemTexts, textIdx, fieldValue,
                 currentEmbed, currentLength, embeds, sent, inputText>>

SpecSplit == InitSplit /\ [][Split]_vars

(* ---------------- buildDigestEmbeds ---------------- *)

ALL_CATEGORIES ==
  <<"AI", "crypto", "marketing", "tools", "personal", "news", "content-ideas", "other">>

(* category.length; "finance" stands for a category outside ALL_CATEGORIES. *)
CategoryLength(c) ==
  CASE c = "AI" -> 2
    [] c = "crypto" -> 6
    [] c = "marketing" -> 9
    [] c = "tools" -> 5
    [] c = "personal" -> 8
    [] c = "news" -> 4
    [] c = "content-ideas" -> 13
    [] c = "other" -> 5
    [] c = "finance" -> 7

(* `[${group.category.toUpperCase()}]`.length *)
FieldNameLength(c) == CategoryLength(c) + 2

Digits(n) == IF n < 10 THEN 1 ELSE IF n < 100 THEN 2 ELSE 3

(* The lengths of the literal texts of the embeds. *)
TitleLength(newCount) == 25 + Digits(newCount)
FooterLength(newCount) == 58 + Digits(newCount)
CONTINUED_TITLE_LENGTH == 30
CAUGHT_UP_TITLE_LENGTH == 18
CAUGHT_UP_TEXT_LENGTH == 52
DEFAULT_ACTION_LENGTH == 60

(* What buildDigestEmbeds counts for the title of the first embed and of a *)
(* continued one.                                                          *)
TITLE_ALLOWANCE == 30
CONTINUED_ALLOWANCE == 40

MAX_EMBEDS_PER_MESSAGE == 10

(* The most items of one shape in a digest. *)
MaxBigItems == 57

Tag(item, part, k) == [item |-> item.bookmarkId, part |-> part, k |-> k]

(* `- ${action}` *)
Bullet(l) == [l EXCEPT !.of = @ + 2, !.len = @ + 2]

normalizedActions(item) ==
  IF item.hasActions
    THEN Take(SelectSeq([k \in DOMAIN item.actions |->
                           truncateText(Line(Tag(item, "action", k), item.actions[k]),
                                        MAX_ACTION_LENGTH)],
                        LAMBDA l : Chars(l) > 0),
              MAX_ACTIONS)
    ELSE <<>>

ActionsOf(item) ==
  IF normalizedActions(item) # <<>> THEN normalizedActions(item)
  ELSE <<Line(Tag(item, "default", 0), DEFAULT_ACTION_LENGTH)>>

(* The lines of the text formatSingleItem returns; the text ends with two  *)
(* newlines, so its last two lines are blank.                              *)
formatSingleItem(item) ==
  <<Line(Tag(item, "summary", 0), item.summary + item.authorUsername + 8),
    Blank,
    truncateText(Line(Tag(item, "keyTakeaway", 0), item.keyTakeaway),
                 MAX_KEY_TAKEAWAY_LENGTH),
    Blank,
    Line(Tag(item, "id", 0), 13 + item.idLen),
    Line(Tag(item, "link", 0), 19 + 14 + item.authorUsername + 8 + item.idLen),
    Line(Tag(item, "heading", 0), 18)>>
  \o [k \in DOMAIN ActionsOf(item) |-> Bullet(ActionsOf(item)[k])]
  \o <<Blank, Blank>>

RECURSIVE FirstSeen(_, _)
FirstSeen(q, seen) ==
  IF q = <<>> THEN <<>>
  ELSE IF Head(q) \in seen THEN FirstSeen(Tail(q), seen)
  ELSE <<Head(q)>> \o FirstSeen(Tail(q), seen \cup {Head(q)})

(* The keys of the Map, in insertion order. *)
GroupKeys(as) ==
  ALL_CATEGORIES \o
    FirstSeen([k \in DOMAIN as |-> as[k].category],
              {ALL_CATEGORIES[k] : k \in DOMAIN ALL_CATEGORIES})

PrecedesAscending(a, b) == Len(a.items) < Len(b.items)

(* The comparator of the sort: a group with more items comes first. *)
Precedes(a, b) == Len(a.items) > Len(b.items)

groupByCategory(as) ==
  LET keys == GroupKeys(as)
      gs == [k \in DOMAIN keys |->
               [category |-> keys[k],
                items |-> SelectSeq(as, LAMBDA a : a.category = keys[k])]]
      rank(k) == 1 + Cardinality({j \in DOMAIN gs :
                                    \/ Precedes(gs[j], gs[k])
                                    \/ ~Precedes(gs[k], gs[j]) /\ j < k})
  IN  [r \in DOMAIN gs |-> gs[CHOOSE k \in DOMAIN gs : rank(k) = r]]

RECURSIVE FlatMapSplit(_)
FlatMapSplit(its) ==
  IF its = <<>> THEN <<>>
  ELSE splitForField(formatSingleItem(Head(its)), MAX_FIELD_LENGTH) \o FlatMapSplit(Tail(its))

FieldOverflowsOnFullField(fv, itemText) == fv.len > MAX_FIELD_LENGTH

(* fieldValue.length + itemText.length > MAX_FIELD_LENGTH *)
FieldOverflows(fv, itemText) == fv.len + TextLen(itemText) > MAX_FIELD_LENGTH

(* currentLength + fieldName.length + fieldValue.length > MAX_EMBED_TOTAL *)
EmbedOverflows(length, c, fv) == length + FieldNameLength(c) + fv.len > MAX_EMBED_TOTAL

(* fieldValue += itemText *)
Extended(fv, itemText) ==
  [len |-> fv.len + TextLen(itemText), chunks |-> Append(fv.chunks, itemText)]

(* fieldValue.trim().length: an item text begins with ink, so only the     *)
(* blank lines that end the last one are trimmed away.                     *)
TrimmedLen(fv) ==
  LET last == fv.chunks[Len(fv.chunks)]
  IN  fv.len - (TextLen(last) - TextLen(TrimEnd(last)))

AddField(embed, c, fv) ==
  [embed EXCEPT !.fields =
     Append(@, [name |-> c, nameLen |-> FieldNameLength(c),
                chunks |-> fv.chunks, len |-> TrimmedLen(fv)])]

ContinuedEmbed == [NoEmbed EXCEPT !.title = CONTINUED_TITLE_LENGTH]

(* Flushing a field: a new embed is begun when the field would overflow    *)
(* the current one, and the field is added.                                *)
Flushed(c, fv) ==
  LET over == EmbedOverflows(currentLength, c, fv)
  IN  [embeds |-> IF over THEN Append(embeds, currentEmbed) ELSE embeds,
       currentEmbed |-> AddField(IF over THEN ContinuedEmbed ELSE currentEmbed, c, fv),
       currentLength |-> (IF over THEN CONTINUED_ALLOWANCE ELSE currentLength)
                           + FieldNameLength(c) + fv.len]

Shape(c, s, t, given, acts) ==
  [category |-> c, summary |-> s, keyTakeaway |-> t, hasActions |-> given,
   actions |-> acts, authorUsername |-> 8, idLen |-> 19]

(* An item whose text is 1024 characters long, one of 605, one whose       *)
(* takeaway is a single line of 2000, one with a blank action and six of   *)
(* 200, one as the analyzer builds it, with no actions array and a         *)
(* category of its own, and one whose summary is 1500 long.                *)
FullTool == Shape("tools", 79, 700, TRUE, <<100>>)
SmallAI == Shape("AI", 60, 300, TRUE, <<100>>)
LongTakeaway == Shape("tools", 79, 2000, TRUE, <<100>>)
ManyActions == Shape("news", 40, 700, TRUE, <<200, 200, 0, 200, 200, 200, 200>>)
NoActions == Shape("finance", 50, 200, FALSE, <<>>)
LongSummary == Shape("crypto", 1500, 100, TRUE, <<50>>)

Repeat(x, n) == [k \in 1..n |-> x]

Numbered(q) ==
  [k \in DOMAIN q |->
     [bookmarkId |-> k, category |-> q[k].category, summary |-> q[k].summary,
      keyTakeaway |-> q[k].keyTakeaway, hasActions |-> q[k].hasActions,
      actions |-> q[k].actions, authorUsername |-> q[k].authorUsername,
      idLen |-> q[k].idLen]]

DigestInputs ==
  {Numbered((IF longFirst
               THEN Repeat(LongTakeaway, n3) \o Repeat(FullTool, n1)
               ELSE Repeat(FullTool, n1) \o Repeat(LongTakeaway, n3))
            \o Repeat(SmallAI, n2) \o Repeat(ManyActions, n4)
            \o Repeat(NoActions, n5) \o Repeat(LongSummary, n6)) :
     n1 \in {0, 5, MaxBigItems}, n2 \in {0, 1, 3}, n3 \in {0, 1, 3},
     n4 \in {0, 1}, n5 \in {0, 2}, n6 \in {0, 1}, longFirst \in BOOLEAN}

(* buildDigestEmbeds is called once the analyses are saved. *)
InitFormat ==
  /\ pc = "format"
  /\ now = 0
  /\ bookmarks = <<>>
  /\ i = 0
  /\ prompt = NoPrompt
  /\ estimated = 0
  /\ elapsed = 0
  /\ waitMs = 0
  /\ tokensUsed = 0
  /\ windowStart = 0
  /\ allAnalyses = <<>>
  /\ inFlight = 0
  /\ calls = <<>>
  /\ saveIdx = 0
  /\ error = "none"
  /\ waited = FALSE
  /\ windowEsts = <<>>
  /\ recorded = 0
  /\ lastResp = NoResp
  /\ HandlerIdle
  /\ FetchIdle
  /\ RefetchIdle
  /\ EnrichIdle
  /\ SchedIdle
  /\ analyses \in DigestInputs
  /\ store = RowsFor([n \in DOMAIN analyses |-> analyses[n].bookmarkId])
  /\ groups = <<>>
  /\ groupIdx = 0
  /\ itemTexts = <<>>
  /\ textIdx = 0
  /\ fieldValue = NoField
  /\ currentEmbed = NoEmbed
  /\ currentLength = 0
  /\ embeds = <<>>
  /\ sent = <<>>
  /\ inputText = <<>>
  /\ chunks = <<>>

otherThanFormat ==
  <<coreVarsButPc, handlerVars, fetchVars, refetchVars, enrichVars, schedVars,
    inputText, chunks>>

(* No analyses: the single "all caught up" embed. *)
FormatCaughtUp ==
  /\ pc = "format"
  /\ analyses = <<>>
  /\ embeds' = <<[NoEmbed EXCEPT !.title = CAUGHT_UP_TITLE_LENGTH,
                                 !.description = CAUGHT_UP_TEXT_LENGTH]>>
  /\ pc' = "formatted"
  /\ UNCHANGED <<analyses, groups, groupIdx, itemTexts, textIdx, fieldValue,
                 currentEmbed, currentLength, sent>>
  /\ UNCHANGED otherThanFormat

FormatStart ==
  /\ pc = "format"
  /\ analyses # <<>>
  /\ groups' = groupByCategory(analyses)
  /\ currentEmbed' = [NoEmbed EXCEPT !.title = TitleLength(Len(analyses))]
  /\ currentLength' = TITLE_ALLOWANCE
  /\ groupIdx' = 1
  /\ pc' = "group"
  /\ UNCHANGED <<analyses, itemTexts, textIdx, fieldValue, embeds, sent>>
  /\ UNCHANGED otherThanFormat

(* The head of the loop over the groups: a group with no items is passed   *)
(* over, the items of another are formatted and split.                     *)
GroupStart ==
  /\ pc = "group"
  /\ groupIdx <= Len(groups)
  /\ IF groups[groupIdx].items = <<>>
       THEN /\ groupIdx' = groupIdx + 1
            /\ UNCHANGED <<pc, itemTexts, textIdx, fieldValue>>
       ELSE /\ itemTexts' = FlatMapSplit(groups[groupIdx].items)
            /\ fieldValue' = NoField
            /\ textIdx' = 1
            /\ pc' = "pack"
            /\ UNCHANGED groupIdx
  /\ UNCHANGED <<analyses, groups, currentEmbed, currentLength, embeds, sent>>
  /\ UNCHANGED otherThanFormat

(* One pass of the loop over the item texts of the group. *)
PackItemText ==
  /\ pc = "pack"
  /\ textIdx <= Len(itemTexts)
  /\ LET itemText == itemTexts[textIdx]
         c == groups[groupIdx].category
     IN  IF FieldOverflows(fieldValue, itemText)
           THEN /\ IF fieldValue.len > 0
                     THEN /\ embeds' = Flushed(c, fieldValue).embeds
                          /\ currentEmbed' = Flushed(c, fieldValue).currentEmbed
                          /\ currentLength' = Flushed(c, fieldValue).currentLength
                     ELSE UNCHANGED <<embeds, currentEmbed, currentLength>>
                /\ fieldValue' = Extended(NoField, itemText)
           ELSE /\ fieldValue' = Extended(fieldValue, itemText)
                /\ UNCHANGED <<embeds, currentEmbed, currentLength>>
  /\ textIdx' = textIdx + 1
  /\ UNCHANGED <<pc, analyses, groups, groupIdx, itemTexts, sent>>
  /\ UNCHANGED otherThanFormat

(* The item texts of the group are used up: what is left is flushed. *)
FlushGroup ==
  /\ pc = "pack"
  /\ textIdx > Len(itemTexts)
  /\ LET c == groups[groupIdx].category
     IN  IF fieldValue.len > 0
           THEN /\ embeds' = Flushed(c, fieldValue).embeds
                /\ currentEmbed' = Flushed(c, fieldValue).currentEmbed
                /\ currentLength' = Flushed(c, fieldValue).currentLength
           ELSE UNCHANGED <<embeds, currentEmbed, currentLength>>
  /\ groupIdx' = groupIdx + 1
  /\ pc' = "group"
  /\ UNCHANGED <<analyses, groups, itemTexts, textIdx, fieldValue, sent>>
  /\ UNCHANGED otherThanFormat

(* After the last group: the footer goes on the last embed. *)
FormatReturns ==
  /\ pc = "group"
  /\ groupIdx > Len(groups)
  /\ embeds' = Append(embeds, [currentEmbed EXCEPT !.footer = FooterLength(Len(analyses))])
  /\ pc' = "formatted"
  /\ UNCHANGED <<analyses, groups, groupIdx, itemTexts, textIdx, fieldValue,
                 currentEmbed, currentLength, sent>>
  /\ UNCHANGED otherThanFormat

(* The caller posts the first ten embeds. *)
SendDigest ==
  /\ pc = "formatted"
  /\ sent' = Take(embeds, MAX_EMBEDS_PER_MESSAGE)
  /\ pc' = "sent"
  /\ UNCHANGED <<analyses, groups, groupIdx, itemTexts, textIdx, fieldValue,
                 currentEmbed, currentLength, embeds>>
  /\ UNCHANGED otherThanFormat

NextFormat ==
  \/ FormatCaughtUp
  \/ FormatStart
  \/ GroupStart
  \/ PackItemText
  \/ FlushGroup
  \/ FormatReturns
  \/ SendDigest

SpecFormat == InitFormat /\ [][NextFormat]_vars

(* ================= Scheduler ================= *)

SCHED_FETCH_COUNT == 50

(* The most bookmarks of a user, and the most digest runs followed. *)
MaxBookmarks == 2
MaxRuns == 3

Users == {"u1", "u2"}
Targets == {1, MaxBookmarks}

(* A digest run: whose it was, what it fetched, analysed and posted. *)
Ran(u, kind, list, ids, posted) ==
  [user |-> u, kind |-> kind, fetched |-> list, analysed |-> ids, posted |-> posted]

(* A row of analyzed_bookmarks: its primary key is the bookmark id with    *)
(* the user id.                                                            *)
UserRow(u, r) == [discordUserId |-> u, row |-> r]

RowsOfAnyUser(table, u) == {x.row : x \in table}

(* WHERE discord_user_id = ? *)
RowsOfUser(table, u) == {x.row : x \in {y \in table : y.discordUserId = u}}

(* saveAnalyses: INSERT OR REPLACE of one row per analysis. *)
saveAnalyses(table, u, ids) ==
  {x \in table : ~(x.discordUserId = u /\ x.row.bookmarkId \in StoredIds(RowsFor(ids)))}
    \cup {UserRow(u, r) : r \in RowsFor(ids)}

(* newBookmarks of a scheduled run: the fetched bookmarks the store does   *)
(* not hold for the user, none cut off.                                    *)
ScheduledNew(src, rows) ==
  NewBookmarks(fetchBookmarks(src, SCHED_FETCH_COUNT), rows, SCHED_FETCH_COUNT)

(* newBookmarks of a /bookmark-digest run: the fetch loop to its break. *)
RECURSIVE DigestLoop(_, _, _, _)
DigestLoop(src, rows, t, count) ==
  LET new == NewBookmarks(fetchBookmarks(src, count), rows, t)
  IN  IF LoopBreaks(new, t, count) THEN new
      ELSE DigestLoop(src, rows, t, NextFetchCount(count))

InitSched ==
  /\ pc = "sched"
  /\ now = 0
  /\ bookmarks = <<>>
  /\ i = 0
  /\ prompt = NoPrompt
  /\ estimated = 0
  /\ elapsed = 0
  /\ waitMs = 0
  /\ tokensUsed = 0
  /\ windowStart = 0
  /\ allAnalyses = <<>>
  /\ inFlight = 0
  /\ calls = <<>>
  /\ store = {}
  /\ saveIdx = 0
  /\ error = "none"
  /\ waited = FALSE
  /\ windowEsts = <<>>
  /\ recorded = 0
  /\ lastResp = NoResp
  /\ HandlerIdle
  /\ target = 0
  /\ source = [u \in Users |-> <<>>]
  /\ fetchCount = 0
  /\ fetched = <<>>
  /\ requests = <<>>
  /\ founds = <<>>
  /\ diag = "none"
  /\ run = 1
  /\ firstNew = <<>>
  /\ RefetchIdle
  /\ EnrichIdle
  /\ FormatIdle
  /\ SchedIdle

allButStore ==
  <<pc, now, bookmarks, i, prompt, estimated, elapsed, waitMs, tokensUsed, windowStart,
    allAnalyses, inFlight, calls, saveIdx, error, waited, windowEsts, recorded, lastResp,
    handlerVars, refetchVars, enrichVars, formatVars, target, fetchCount, fetched,
    requests, founds, diag, run, firstNew, runs, saved, submitted, users, ticks>>

(* The user bookmarks one more post; it is the newest of the list. *)
UserBookmarks(u) ==
  /\ Len(source[u]) < MaxBookmarks
  /\ source' = [source EXCEPT ![u] = <<Len(@) + 1>> \o @]
  /\ UNCHANGED <<allButStore, store, schedLog>>

(* runDigestForUser to its end: fetch, filter, and when something is new   *)
(* analyse and post it. The store is only read.                            *)
ScheduledRun(u) ==
  /\ Len(schedLog) < MaxRuns
  /\ LET list == fetchBookmarks(source[u], SCHED_FETCH_COUNT)
         new == ScheduledNew(source[u], RowsOfUser(store, u))
     IN  schedLog' = Append(schedLog, Ran(u, "scheduled", list, new, new # <<>>))
  /\ UNCHANGED <<allButStore, store, source>>

(* fetchBookmarks rejects: runDigestForUser throws and checkAndRunDigests  *)
(* logs the error.                                                         *)
ScheduledRunFails(u) ==
  /\ Len(schedLog) < MaxRuns
  /\ schedLog' = Append(schedLog, Ran(u, "failed", <<>>, <<>>, FALSE))
  /\ UNCHANGED <<allButStore, store, source>>

(* /bookmark-digest to its end: what it analyses it saves for the user. *)
ManualDigest(u, t) ==
  /\ Len(schedLog) < MaxRuns
  /\ LET new == DigestLoop(source[u], RowsOfUser(store, u), t, FirstFetchCount(t))
     IN  /\ schedLog' = Append(schedLog, Ran(u, "manual", source[u], new, TRUE))
         /\ store' = saveAnalyses(store, u, new)
  /\ UNCHANGED <<allButStore, source>>

NextSched ==
  \/ \E u \in Users : UserBookmarks(u)
  \/ \E u \in Users : ScheduledRun(u)
  \/ \E u \in Users : ScheduledRunFails(u)
  \/ \E u \in Users : \E t \in Targets : ManualDigest(u, t)

SpecSched == InitSched /\ [][NextSched]_vars

(* ================= digest runs at overlapping times ================= *)

(* Two digest runs are followed together: two commands, or a command and  *)
(* a scheduled digest.                                                     *)
RunIds == {1, 2}

(* The time followed, in token windows with their margin: the longest     *)
(* sleep of waitIfNeeded.                                                  *)
MaxWindows == 1

(* Every user has bookmarked the same posts: one batch and one more. *)
OverlapSource == IdsOf(BATCH_SIZE + 1)

OverlapTargets == {1, BATCH_SIZE + 1}

(* The prompts of these runs are of the shorter length: the estimated cost *)
(* of every batch is within the limit on its own.                          *)
OverlapPromptLen == CHOOSE len \in PromptLens : \A other \in PromptLens : len <= other

(* A run that has fetched and filtered: with nothing new it is over,      *)
(* otherwise analyzeBookmarks begins with a TokenBucket of its own.       *)
Started(u, kind, t, list, seen, new, at) ==
  [user |-> u, kind |-> kind, target |-> t, fetched |-> list, seen |-> seen,
   new |-> new, pc |-> IF new = <<>> THEN "done" ELSE "analysing", i |-> 0,
   estimated |-> 0, tokensUsed |-> 0, windowStart |-> at, wake |-> 0]

BatchOf(r) == SubSeq(r.new, r.i + 1, Min(r.i + BATCH_SIZE, Len(r.new)))

Submission(k, r, est, at) ==
  [run |-> k, user |-> r.user, kind |-> r.kind, ids |-> BatchOf(r), est |-> est, at |-> at]

InitOverlap ==
  /\ pc = "overlap"
  /\ now = 0
  /\ bookmarks = <<>>
  /\ i = 0
  /\ prompt = NoPrompt
  /\ estimated = 0
  /\ elapsed = 0
  /\ waitMs = 0
  /\ tokensUsed = 0
  /\ windowStart = 0
  /\ allAnalyses = <<>>
  /\ inFlight = 0
  /\ calls = <<>>
  /\ store = {}
  /\ saveIdx = 0
  /\ error = "none"
  /\ waited = FALSE
  /\ windowEsts = <<>>
  /\ recorded = 0
  /\ lastResp = NoResp
  /\ HandlerIdle
  /\ target = 0
  /\ source = [u \in Users |-> OverlapSource]
  /\ fetchCount = 0
  /\ fetched = <<>>
  /\ requests = <<>>
  /\ founds = <<>>
  /\ diag = "none"
  /\ run = 1
  /\ firstNew = <<>>
  /\ RefetchIdle
  /\ EnrichIdle
  /\ FormatIdle
  /\ schedLog = <<>>
  /\ runs = <<>>
  /\ saved = [u \in Users |-> {}]
  /\ submitted = <<>>
  /\ users = <<>>
  /\ ticks = <<>>

overlapIdle ==
  <<pc, bookmarks, i, prompt, estimated, elapsed, waitMs, tokensUsed, windowStart,
    allAnalyses, inFlight, calls, saveIdx, error, waited, windowEsts, recorded, lastResp,
    handlerVars, fetchVars, refetchVars, enrichVars, formatVars, schedLog, users, ticks>>

(* A /bookmark-digest command: the fetch loop and its membership test. *)
StartManual(u, t) ==
  /\ Len(runs) < Cardinality(RunIds)
  /\ runs' = Append(runs,
       Started(u, "manual", t, source[u], saved[u],
               DigestLoop(source[u], RowsOfUser(store, u), t, FirstFetchCount(t)), now))
  /\ UNCHANGED <<overlapIdle, now, store, saved, submitted>>

(* runDigestForUser: one fetch and the membership test. *)
StartScheduled(u) ==
  /\ Len(runs) < Cardinality(RunIds)
  /\ runs' = Append(runs,
       Started(u, "scheduled", SCHED_FETCH_COUNT,
               fetchBookmarks(source[u], SCHED_FETCH_COUNT), saved[u],
               ScheduledNew(source[u], RowsOfUser(store, u)), now))
  /\ UNCHANGED <<overlapIdle, now, store, saved, submitted>>

(* waitIfNeeded on the bucket of the run: the call is issued, or the run   *)
(* sleeps for the rest of its window.                                      *)
Admit(k) ==
  /\ runs[k].pc = "analysing"
  /\ \E len \in {OverlapPromptLen} :
       LET r == runs[k]
           est == EstimatedCost(len, Len(BatchOf(r)))
           el == now - r.windowStart
           used == IF WindowExpired(el) THEN 0 ELSE r.tokensUsed
           ws == IF WindowExpired(el) THEN now ELSE r.windowStart
       IN  IF OverBudget(used, est)
             THEN /\ runs' = [runs EXCEPT ![k] =
                       [r EXCEPT !.pc = "waiting", !.estimated = est, !.tokensUsed = used,
                                 !.windowStart = ws, !.wake = now + WaitMs(el)]]
                  /\ UNCHANGED submitted
             ELSE /\ runs' = [runs EXCEPT ![k] =
                       [r EXCEPT !.pc = "calling", !.estimated = est, !.tokensUsed = used,
                                 !.windowStart = ws]]
                  /\ submitted' = Append(submitted, Submission(k, r, est, now))
  /\ UNCHANGED <<overlapIdle, now, store, saved>>

(* The sleep of waitIfNeeded is over: a fresh window, and the call. *)
Wake(k) ==
  /\ runs[k].pc = "waiting"
  /\ now >= runs[k].wake
  /\ runs' = [runs EXCEPT ![k] =
       [@ EXCEPT !.pc = "calling", !.tokensUsed = TokensAfterWait(@), !.windowStart = now]]
  /\ submitted' = Append(submitted, Submission(k, runs[k], runs[k].estimated, now))
  /\ UNCHANGED <<overlapIdle, now, store, saved>>

(* The service answers: the usage it reports is recorded in the bucket. *)
Respond(k) ==
  /\ runs[k].pc = "calling"
  /\ \E usage \in UsageChoices :
       runs' = [runs EXCEPT ![k] =
         [@ EXCEPT !.tokensUsed = recordUsage(@, usage),
                   !.i = @ + BATCH_SIZE,
                   !.pc = IF runs[k].i + BATCH_SIZE >= Len(runs[k].new)
                            THEN "analysed" ELSE "analysing"]]
  /\ UNCHANGED <<overlapIdle, now, store, saved, submitted>>

(* After the analysis: a /bookmark-digest run saves what it analysed, a    *)
(* scheduled run does not.                                                 *)
Finish(k) ==
  /\ runs[k].pc = "analysed"
  /\ runs' = [runs EXCEPT ![k] = [@ EXCEPT !.pc = "done"]]
  /\ IF runs[k].kind = "manual"
       THEN /\ store' = saveAnalyses(store, runs[k].user, runs[k].new)
            /\ saved' = [saved EXCEPT ![runs[k].user] =
                           @ \cup {runs[k].new[j] : j \in DOMAIN runs[k].new}]
       ELSE UNCHANGED <<store, saved>>
  /\ UNCHANGED <<overlapIdle, now, submitted>>

TimePasses ==
  /\ now < MaxWindows * (TOKEN_WINDOW_MS + SAFETY_MARGIN_MS)
  /\ now' = now + TOKEN_WINDOW_MS + SAFETY_MARGIN_MS
  /\ UNCHANGED <<overlapIdle, store, runs, saved, submitted>>

NextOverlap ==
  \/ \E u \in Users : \E t \in OverlapTargets : StartManual(u, t)
  \/ \E u \in Users : StartScheduled(u)
  \/ \E k \in DOMAIN runs : Admit(k)
  \/ \E k \in DOMAIN runs : Wake(k)
  \/ \E k \in DOMAIN runs : Respond(k)
  \/ \E k \in DOMAIN runs : Finish(k)
  \/ TimePasses

SpecOverlap == InitOverlap /\ [][NextOverlap]_vars

(***************************************************************************)
(* The scheduler's ticks and the commands that change the users table.     *)
(* node-cron calls checkAndRunDigests at the start of every minute; the    *)
(* tick reads the scheduled users once and then walks that list, awaiting  *)
(* each run it starts, so that a tick can still be walking its list when   *)
(* the next minute's tick fires or a command changes the table.            *)
(***************************************************************************)
MaxTicks == 2
NULL == "NULL"
DAILY_CRON == "0 9 * * *"
WEEKLY_CRON == "0 9 * * 1"
Frequencies == {"daily", "weekly"}
RunOutcomes == {"ok", "fetch_failed", "batch_failed", "send_failed"}

(* A Date, in ms since the epoch: 1 January 1970 was a Thursday. *)
At(day, hour, minute) == day * 86400000 + hour * 3600000 + minute * 60000
getUTCMinutes(t) == (t \div 60000) % 60
getUTCHours(t) == (t \div 3600000) % 24
getUTCDay(t) == ((t \div 86400000) + 4) % 7

(* The minute before 9am UTC of a Thursday and of a Monday. *)
StartTimes == {At(0, 8, 59), At(4, 8, 59)}

(* cronExpr.split(' ') and parseInt, on the expressions the bot stores. *)
split(cronExpr) ==
  CASE cronExpr = DAILY_CRON  -> <<"0", "9", "*", "*", "*">>
    [] cronExpr = WEEKLY_CRON -> <<"0", "9", "*", "*", "1">>
    [] OTHER                  -> <<cronExpr>>
parseInt(part) ==
  CASE part = "0" -> 0
    [] part = "1" -> 1
    [] part = "9" -> 9
    [] OTHER      -> -1

shouldRunNow(cronExpr, t) ==
  LET parts == split(cronExpr)
  IN  IF Len(parts) # 5
        THEN FALSE
        ELSE /\ ~(parts[1] # "*" /\ parseInt(parts[1]) # getUTCMinutes(t))
             /\ ~(parts[2] # "*" /\ parseInt(parts[2]) # getUTCHours(t))
             /\ ~(parts[5] # "*" /\ parseInt(parts[5]) # getUTCDay(t))

(* A row of the users table. A user who never registered has no row, which *)
(* every query here answers like a row of NULLs.                           *)
NoUser ==
  [encrypted_auth_token |-> NULL, encrypted_ct0 |-> NULL,
   schedule_channel_id |-> NULL, schedule_cron |-> NULL]

hasAuthTokensAlways(table, u) == TRUE

hasAuthTokens(table, u) ==
  table[u].encrypted_auth_token # NULL /\ table[u].encrypted_ct0 # NULL

registerTokens(table, u) ==
  [table EXCEPT ![u].encrypted_auth_token = "enc", ![u].encrypted_ct0 = "enc"]

setSchedule(table, u, channelId, cronExpression) ==
  [table EXCEPT ![u].schedule_channel_id = channelId,
                ![u].schedule_cron = cronExpression]

clearSchedule(table, u) ==
  [table EXCEPT ![u].schedule_channel_id = NULL, ![u].schedule_cron = NULL]

IsScheduled(table, u) ==
  table[u].schedule_channel_id # NULL /\ table[u].schedule_cron # NULL

(* The rows the query returns, in the order of the table: the query has no *)
(* ORDER BY, and the rows were inserted in the order the users registered. *)
Orderings(S) ==
  {order \in [1..Cardinality(S) -> S] :
     \A a, b \in DOMAIN order : a # b => order[a] # order[b]}

ScheduledRow(table, u) ==
  [discord_id |-> u, channel_id |-> table[u].schedule_channel_id,
   cron |-> table[u].schedule_cron]

getAllScheduledUsers(table) ==
  {[n \in DOMAIN order |-> ScheduledRow(table, order[n])] :
     order \in Orderings({u \in Users : IsScheduled(table, u)})}

Event(k, u, what, t) == [tick |-> k, user |-> u, event |-> what, at |-> t]

(* A failed run throws, and the loop of the tick stops at the first throw. *)
RECURSIVE WalkUntilThrow(_, _, _, _, _)
WalkUntilThrow(k, snapshot, from, t, thrown) ==
  IF thrown \/ from > Len(snapshot)
    THEN [pos |-> Len(snapshot) + 1, events |-> <<>>]
    ELSE IF shouldRunNow(snapshot[from].cron, t)
      THEN [pos |-> from,
            events |-> <<Event(k, snapshot[from].discord_id, "start", t)>>]
      ELSE LET rest == WalkUntilThrow(k, snapshot, from + 1, t, thrown)
           IN  [pos |-> rest.pos,
                events |-> <<Event(k, snapshot[from].discord_id, "skip", t)>>
                             \o rest.events]

(* The loop of checkAndRunDigests from position from on, at time t, up to  *)
(* its next await: the users not due are passed over and the run of the   *)
(* first user due is started. The catch of the loop swallows what the run  *)
(* before threw, so the walk goes on whatever the run's outcome.           *)
RECURSIVE Walk(_, _, _, _, _)
Walk(k, snapshot, from, t, thrown) ==
  IF from > Len(snapshot)
    THEN [pos |-> Len(snapshot) + 1, events |-> <<>>]
    ELSE IF shouldRunNow(snapshot[from].cron, t)
      THEN [pos |-> from,
            events |-> <<Event(k, snapshot[from].discord_id, "start", t)>>]
      ELSE LET rest == Walk(k, snapshot, from + 1, t, thrown)
           IN  [pos |-> rest.pos,
                events |-> <<Event(k, snapshot[from].discord_id, "skip", t)>>
                             \o rest.events]

InitTick ==
  /\ pc = "tick"
  /\ now \in StartTimes
  /\ bookmarks = <<>>
  /\ i = 0
  /\ prompt = NoPrompt
  /\ estimated = 0
  /\ elapsed = 0
  /\ waitMs = 0
  /\ tokensUsed = 0
  /\ windowStart = 0
  /\ allAnalyses = <<>>
  /\ inFlight = 0
  /\ calls = <<>>
  /\ store = {}
  /\ saveIdx = 0
  /\ error = "none"
  /\ waited = FALSE
  /\ windowEsts = <<>>
  /\ recorded = 0
  /\ lastResp = NoResp
  /\ HandlerIdle
  /\ FetchIdle
  /\ RefetchIdle
  /\ EnrichIdle
  /\ FormatIdle
  /\ schedLog = <<>>
  /\ runs = <<>>
  /\ saved = <<>>
  /\ submitted = <<>>
  /\ users = [u \in Users |-> NoUser]
  /\ ticks = <<>>

tickIdle ==
  <<pc, bookmarks, i, prompt, estimated, elapsed, waitMs, tokensUsed, windowStart,
    allAnalyses, inFlight, calls, store, saveIdx, error, waited, windowEsts, recorded,
    lastResp, handlerVars, fetchVars, refetchVars, enrichVars, formatVars, runs, saved,
    submitted>>

(* /register-auth: the tokens are stored when bird whoami accepts them. *)
RegisterAuth(u, valid) ==
  /\ pc = "tick"
  /\ users' = IF valid THEN registerTokens(users, u) ELSE users
  /\ UNCHANGED <<now, ticks, schedLog, tickIdle>>

(* /schedule-digest enable. *)
ScheduleEnable(u, frequency, textChannel, maySend) ==
  /\ pc = "tick"
  /\ users' =
       IF ~hasAuthTokens(users, u) \/ ~textChannel \/ ~maySend
         THEN users
         ELSE setSchedule(users, u, "channel",
                          IF frequency = "daily" THEN DAILY_CRON ELSE WEEKLY_CRON)
  /\ UNCHANGED <<now, ticks, schedLog, tickIdle>>

(* /schedule-digest disable. *)
ScheduleDisable(u) ==
  /\ pc = "tick"
  /\ users' = IF ~hasAuthTokens(users, u) THEN users ELSE clearSchedule(users, u)
  /\ UNCHANGED <<now, ticks, schedLog, tickIdle>>

(* The next minute begins and node-cron calls checkAndRunDigests, whether  *)
(* or not an earlier tick is still awaiting a run.                         *)
TickFires ==
  /\ pc = "tick"
  /\ Len(ticks) < MaxTicks
  /\ now' = now + 60000
  /\ \E scheduledUsers \in getAllScheduledUsers(users) :
       LET k    == Len(ticks) + 1
           walk == Walk(k, scheduledUsers, 1, now', FALSE)
       IN  /\ ticks' = Append(ticks, [at |-> now', scheduledUsers |-> scheduledUsers,
                                      pos |-> walk.pos])
           /\ schedLog' = schedLog \o walk.events
  /\ UNCHANGED <<users, tickIdle>>

(* The run a tick awaits returns or throws, and the tick's loop goes on. *)
RunEnds(k, outcome) ==
  /\ pc = "tick"
  /\ k \in DOMAIN ticks
  /\ ticks[k].pos <= Len(ticks[k].scheduledUsers)
  /\ LET tick == ticks[k]
         walk == Walk(k, tick.scheduledUsers, tick.pos + 1, now, outcome # "ok")
     IN  /\ ticks' = [ticks EXCEPT ![k].pos = walk.pos]
         /\ schedLog' = Append(schedLog,
                               Event(k, tick.scheduledUsers[tick.pos].discord_id,
                                     outcome, now))
                          \o walk.events
  /\ UNCHANGED <<now, users, tickIdle>>

NextTick ==
  \/ \E u \in Users, valid \in BOOLEAN : RegisterAuth(u, valid)
  \/ \E u \in Users, frequency \in Frequencies, textChannel, maySend \in BOOLEAN :
       ScheduleEnable(u, frequency, textChannel, maySend)
  \/ \E u \in Users : ScheduleDisable(u)
  \/ TickFires
  \/ \E k \in 1..MaxTicks, outcome \in RunOutcomes : RunEnds(k, outcome)

SpecTick == InitTick /\ [][NextTick]_vars

(* ======================= properties ======================= *)

RECURSIVE SumSeq(_)
SumSeq(q) == IF q = <<>> THEN 0 ELSE Head(q) + SumSeq(Tail(q))

(* The array parseResponse works on, when the response has one. *)
HasArray(resp) == ~ParseThrows(resp) /\ FoundArray(resp).t = "array"

(* C1: for every batch and every response (invalid JSON, no array, an     *)
(* array shorter or longer than the batch) analyzeBatch returns exactly    *)
(* one result per item, the j-th carrying the id of the j-th item.         *)
C1_OneResultPerItem ==
  pc = "batch_done" =>
    /\ Len(allAnalyses) = Len(bookmarks)
    /\ \A j \in 1..Len(bookmarks) : allAnalyses[j].bookmarkId = bookmarks[j]

C1_Witness ==
  /\ pc = "batch_done"
  /\ lastResp.kind = "array"
  /\ Len(lastResp.arr) > Len(bookmarks)
  /\ Len(bookmarks) = 3
  /\ Len(allAnalyses) = 3
  /\ allAnalyses[3].bookmarkId = bookmarks[3]

(* C2: at the instant waitIfNeeded returns and the call of the batch is    *)
(* issued, tokensUsed does not exceed TOKEN_LIMIT_PER_MINUTE.              *)
C2_ConsumedWithinLimitAtAdmission ==
  pc \in {"admitted", "call1"} => tokensUsed <= TOKEN_LIMIT_PER_MINUTE

C2_Witness ==
  /\ pc = "call1"
  /\ waited
  /\ recorded >= 1
  /\ tokensUsed = 0

(* C3 as claimed: in a window whose batches each fit the limit on their    *)
(* own, the estimated costs of the batches admitted since the last reset   *)
(* sum to at most the limit.                                               *)
C3_EstimatedSumWithinLimit ==
  (\A k \in 1..Len(windowEsts) : windowEsts[k] <= TOKEN_LIMIT_PER_MINUTE)
    => SumSeq(windowEsts) <= TOKEN_LIMIT_PER_MINUTE

(* C3 amended: when a batch is admitted, the usage recorded in the window  *)
(* so far plus the estimated cost of that batch is within the limit,       *)
(* unless the batch is admitted right after a budget wait, at consumed 0.  *)
C3_RecordedPlusEstimateWithinLimit ==
  pc = "admitted" =>
    \/ tokensUsed + estimated <= TOKEN_LIMIT_PER_MINUTE
    \/ waited /\ tokensUsed = 0

C3_Witness ==
  /\ pc = "admitted"
  /\ ~waited
  /\ tokensUsed > 0
  /\ Len(windowEsts) = 2
  /\ SumSeq(windowEsts) > TOKEN_LIMIT_PER_MINUTE

(* C4: waitIfNeeded suspends exactly when consumed + estimated exceeds the *)
(* limit; the suspension lasts at least the rest of the window (from the   *)
(* elapsed time it measured) plus the 2 s margin, never less than 2 s, and *)
(* it ends with consumed = 0 and a fresh window start, before any call of  *)
(* the batch is issued.                                                    *)
C4_WaitCoversWindow ==
  [][/\ (pc = "loop" /\ pc' # "loop") =>
          /\ pc' \in {"admitted", "budget_wait"}
          /\ (pc' = "budget_wait") <=> (tokensUsed' + estimated' > TOKEN_LIMIT_PER_MINUTE)
     /\ (pc = "budget_wait" /\ pc' # "budget_wait") =>
          /\ pc' = "admitted"
          /\ now' - now >= Max(TOKEN_WINDOW_MS - elapsed, 0) + 2000
          /\ now' - now >= 2000
          /\ tokensUsed' = 0
          /\ windowStart' = now'
          /\ calls' = <<>>
          /\ inFlight' = 0]_vars

C4_Witness ==
  /\ pc = "admitted"
  /\ waited
  /\ elapsed > 0
  /\ elapsed < TOKEN_WINDOW_MS
  /\ now - elapsed >= TOKEN_WINDOW_MS + 2000
  /\ tokensUsed = 0
  /\ windowStart = now

(* C5: at most two calls per batch; the second only after a first failure  *)
(* with status 429, with the identical prompt and at least 65 s later; a   *)
(* failure of the second call, or a first failure with another status,     *)
(* ends the run with no further call.                                      *)
C5_RetryOnceOn429Only ==
  /\ Len(calls) <= 2
  /\ Len(calls) = 2 =>
       /\ calls[1].status = 429
       /\ calls[2].prompt = calls[1].prompt
       /\ calls[2].at >= calls[1].settled + 65000
       /\ calls[2].status \notin {0, 200} => pc = "failed"
  /\ (Len(calls) >= 1 /\ calls[1].status \notin {0, 200, 429}) =>
       /\ Len(calls) = 1
       /\ pc = "failed"

C5_Witness ==
  /\ Len(calls) = 2
  /\ calls[1].status = 429
  /\ calls[2].status = 200
  /\ calls[2].settled - calls[1].at >= 65000
  /\ Len(allAnalyses) = Len(bookmarks)

(* C6: at most one service call is in flight, and the admission check of   *)
(* a batch runs only when every earlier batch has been parsed and its      *)
(* usage recorded.                                                         *)
C6_BatchesInSequence ==
  /\ inFlight <= 1
  /\ pc \in {"budget_wait", "admitted"} =>
       /\ inFlight = 0
       /\ recorded * BATCH_SIZE = i
       /\ Len(allAnalyses) = i

C6_Witness ==
  /\ pc = "admitted"
  /\ i = BATCH_SIZE
  /\ recorded = 1
  /\ Len(allAnalyses) = BATCH_SIZE
  /\ inFlight = 0

(* C7: no content of a service response makes the run fail: it always      *)
(* completes, persisting included.                                         *)
C7_ResponseNeverFatal ==
  pc = "failed" => error \in {"fetch", "api", "rate_limit", "db"}

(* C8: when the response array has k entries for a batch of n > k items,   *)
(* results k+1..n are fallbacks (category other, not actionable) and       *)
(* results 1..k carry the values of the entry at the same index (a null    *)
(* entry has none and gets the fallback).                                  *)
C8_ShortArrayPadded ==
  (pc = "batch_done" /\ HasArray(lastResp)
     /\ Len(FoundArray(lastResp).arr) < Len(bookmarks)) =>
    LET arr == FoundArray(lastResp).arr
    IN /\ \A j \in (Len(arr) + 1)..Len(bookmarks) :
            /\ allAnalyses[j].category = "other"
            /\ allAnalyses[j].isActionable = "false"
       /\ \A j \in 1..Len(arr) :
            IF arr[j].null
            THEN /\ allAnalyses[j].category = "other"
                 /\ allAnalyses[j].isActionable = "false"
            ELSE /\ allAnalyses[j].category = arr[j].category
                 /\ allAnalyses[j].isActionable = arr[j].isActionable
                 /\ allAnalyses[j].summary = arr[j].summary
                 /\ allAnalyses[j].keyTakeaway = arr[j].keyTakeaway
                 /\ allAnalyses[j].action = arr[j].action

C8_Witness ==
  /\ pc = "batch_done"
  /\ Len(bookmarks) = 5
  /\ lastResp.kind = "object"
  /\ lastResp.bookmarks = ArrayField(<<GoodEntry, PartialEntry>>)
  /\ allAnalyses[1].category = "AI"
  /\ allAnalyses[2].category = "tools"
  /\ allAnalyses[5].summary = "Unable to analyze"

(* C9: every result of analyzeBatch has a category of the closed set.      *)
C9_CategoryInClosedSet ==
  pc = "batch_done" =>
    \A j \in 1..Len(allAnalyses) : allAnalyses[j].category \in Categories

(* C10: after a failed run the store holds all of the run's results or     *)
(* none of them.                                                           *)
C10_AllOrNothingOnFailure ==
  pc = "failed" =>
    \/ StoredIds(store) = {}
    \/ StoredIds(store) = {allAnalyses[j].bookmarkId : j \in 1..Len(allAnalyses)}

(* C11: when the fetch loop ends with fewer than target new bookmarks its   *)
(* last fetch requested the ceiling of 200; otherwise it ends with exactly  *)
(* the first target unprocessed bookmarks of the last fetch, in fetch order.*)
C11_EndsWithTargetOrCeiling ==
  pc \in {"fetched", "caught_up"} =>
    IF Len(bookmarks) < target
      THEN requests[Len(requests)] = MAX_FETCH
      ELSE bookmarks =
             SubSeq(SelectSeq(fetched, LAMBDA b : b \notin StoredIds(store)), 1, target)

C11_Witness ==
  /\ pc = "fetched"
  /\ Len(requests) >= 2
  /\ requests[Len(requests)] < MAX_FETCH
  /\ Len(bookmarks) = target
  /\ bookmarks # Take(fetched, target)

(* C12: the loop ends after at most four fetches: the first window is       *)
(* max(target + 10, 20), each later one min(3 x previous, 200) and strictly *)
(* larger than the one before, nothing is fetched after a request of 200,   *)
(* a retry follows only a fetch that found fewer than target new bookmarks, *)
(* and every fetch returns the bookmarks from the most recent one on.       *)
C12_WindowsGrowToCeiling ==
  /\ Len(requests) <= 4
  /\ \A k \in DOMAIN requests :
       /\ requests[k] = IF k = 1 THEN Max(target + FETCH_MARGIN, MIN_FIRST_FETCH)
                                 ELSE Min(FETCH_GROWTH * requests[k - 1], MAX_FETCH)
       /\ k > 1 => /\ requests[k] > requests[k - 1]
                   /\ requests[k - 1] < MAX_FETCH
                   /\ founds[k - 1] < target
  /\ pc \in {"fetched", "caught_up"} =>
       fetched = SubSeq(source, 1, Min(requests[Len(requests)], Len(source)))

C12_Witness ==
  /\ pc \in {"fetched", "caught_up"}
  /\ Len(requests) = 4
  /\ requests[4] = MAX_FETCH
  /\ founds[3] < target

(* C13: a failed fetch ends the run: the step that fails issues no fetch,   *)
(* leaves the store alone and reports the collaborator's diagnostic text;   *)
(* afterwards nothing is fetched, analysed, persisted or logged.            *)
C13_FetchFailureEndsRun ==
  [][ /\ error' = "fetch" =>
           /\ pc' = "failed"
           /\ allAnalyses' = <<>>
           /\ usageLogged' = FALSE
           /\ diag' \in StderrTexts
           /\ reported'.message.stderr = diag'
      /\ (error = "none" /\ error' = "fetch") =>
           UNCHANGED <<requests, store>>
      /\ error = "fetch" =>
           UNCHANGED <<requests, allAnalyses, store, usageLogged, reported>> ]_vars

C13_Witness ==
  /\ error = "fetch"
  /\ pc = "failed"
  /\ Len(requests) >= 2
  /\ reported.message.stderr = diag
  /\ diag \in StderrTexts

LookupsOf(j) == {k \in DOMAIN lookups : lookups[k].id = items[j].id}

(* C15 as stated: the returned list has the length of the input, every     *)
(* non-stub item is unchanged at its position, each stub position holds    *)
(* the looked-up item itself or the original stub, and only stubs are      *)
(* looked up.                                                              *)
C15_StubHoldsLookedUpItem ==
  pc \in {"refetched", "done"} =>
    /\ Len(out) = Len(items)
    /\ \A j \in DOMAIN items :
         IF items[j].text = StubText
           THEN \E k \in LookupsOf(j) :
                  out[j] = IF lookups[k].status = "fulfilled" THEN lookups[k].value
                                                              ELSE items[j]
           ELSE out[j] = items[j] /\ LookupsOf(j) = {}

(* C15: the returned list has the length of the input, every non-stub item *)
(* is unchanged at its position and never looked up, and each stub         *)
(* position holds the original stub when its lookup failed, and otherwise  *)
(* the looked-up item with the engagement counter of the stub wherever the *)
(* stub's counter is not zero.                                             *)
C15_StubHoldsMergedItem ==
  pc \in {"refetched", "done"} =>
    /\ Len(out) = Len(items)
    /\ \A j \in DOMAIN items :
         IF items[j].text = StubText
           THEN \E k \in LookupsOf(j) :
                  out[j] = IF lookups[k].status = "fulfilled"
                             THEN [id |-> lookups[k].value.id,
                                   text |-> lookups[k].value.text,
                                   likeCount |-> IF items[j].likeCount # 0
                                                   THEN items[j].likeCount
                                                   ELSE lookups[k].value.likeCount]
                             ELSE items[j]
           ELSE out[j] = items[j] /\ LookupsOf(j) = {}

C15_Witness ==
  /\ pc = "refetched"
  /\ \E j \in DOMAIN items :
       /\ items[j].text = StubText
       /\ items[j].likeCount # 0
       /\ \E k \in LookupsOf(j) :
            /\ lookups[k].status = "fulfilled"
            /\ lookups[k].value.likeCount # items[j].likeCount
            /\ out[j].text = FullText
  /\ \E j \in DOMAIN items : items[j].text = StubText /\ out[j] = items[j]
  /\ \E j \in DOMAIN items : items[j].text = <<"word", "tco_link">>

(* C16: at most one lookup is in flight, and each lookup starts only after *)
(* the one before has settled.                                             *)
C16_OneLookupAtATime ==
  /\ Cardinality({k \in DOMAIN lookups : lookups[k].status = "pending"}) <= 1
  /\ \A k \in DOMAIN lookups :
       k > 1 => /\ lookups[k - 1].status # "pending"
                /\ lookups[k].start >= lookups[k - 1].end

C16_Witness ==
  /\ Len(lookups) >= 2
  /\ lookups[1].status = "rejected"
  /\ lookups[1].end = lookups[1].start + LOOKUP_TIMEOUT_MS
  /\ lookups[2].status = "pending"
  /\ lookups[2].start = lookups[1].end

C18_LookupSettlesWithin15s ==
  \A k \in DOMAIN lookups :
    lookups[k].status # "pending" =>
      lookups[k].end - lookups[k].start <= LOOKUP_TIMEOUT_MS

(* The URLs extracted from the input: the url entities of an item, or the  *)
(* URLs of its text when it has no entities.                               *)
ExtractedUrls ==
  UNION {IF Len(items[j].urls) > 0
           THEN {items[j].urls[h] : h \in DOMAIN items[j].urls}
           ELSE {items[j].textUrls[h] : h \in DOMAIN items[j].textUrls} :
         j \in DOMAIN items}

FetchesOf(u) == {k \in DOMAIN fetches : fetches[k].url = u}

(* C19: enrichBookmarksWithUrls starts a fetch for extracted URLs only, at *)
(* most one per distinct URL, and by its return exactly one per distinct   *)
(* URL, however many items reference the URL.                              *)
C19_OneFetchPerDistinctUrl ==
  /\ \A k \in DOMAIN fetches : fetches[k].url \in ExtractedUrls
  /\ \A u \in ExtractedUrls : Cardinality(FetchesOf(u)) <= 1
  /\ pc = "enriched" => \A u \in ExtractedUrls : Cardinality(FetchesOf(u)) = 1

C19_Witness ==
  /\ pc = "enriched"
  /\ Len(items) >= 2
  /\ PAGE \in {items[1].urls[h] : h \in DOMAIN items[1].urls}
  /\ PAGE \in {items[2].textUrls[h] : h \in DOMAIN items[2].textUrls}
  /\ items[2].urls = <<>>
  /\ Cardinality(FetchesOf(PAGE)) = 1
  /\ Cardinality(ExtractedUrls) >= 3

(* C20: at most five fetches are unsettled at any time, and a fetch of a   *)
(* later wave exists only when every fetch of the earlier waves, redirect  *)
(* hops included, has settled.                                             *)
C20_WavesOfFive ==
  /\ Cardinality({k \in DOMAIN fetches : fetches[k].state # "settled"}) <= WAVE_SIZE
  /\ \A k \in DOMAIN fetches : \A m \in DOMAIN fetches :
       fetches[m].wave > fetches[k].wave => fetches[k].state = "settled"

C20_Witness ==
  /\ \E m \in DOMAIN fetches : fetches[m].wave = 2 /\ fetches[m].state = "http"
  /\ \E k \in DOMAIN fetches :
       /\ fetches[k].wave = 1
       /\ fetches[k].reqs = MAX_REDIRECTS + 1
       /\ fetches[k].state = "settled"
  /\ Cardinality({k \in DOMAIN fetches : fetches[k].wave = 1}) = WAVE_SIZE

(* C21: a fetch never ends unresolved or rejected: whatever the outcome of *)
(* its requests, it is waiting for a response or a worker, or it has       *)
(* resolved.                                                               *)
C21_FetchAlwaysResolves ==
  \A k \in DOMAIN fetches : fetches[k].state \in {"http", "bird", "settled"}

(* The metadata the fetch of a URL resolved with. *)
MetaOf(u) == fetches[CHOOSE k \in FetchesOf(u) : TRUE].meta

UrlsOfItem(j) == IF Len(items[j].urls) > 0 THEN items[j].urls ELSE items[j].textUrls

(* C22: an item all of whose URLs resolved with null title and null        *)
(* description has no entry in the returned mapping.                       *)
C22_NoEntryWhenNothingRecovered ==
  pc = "enriched" =>
    \A j \in DOMAIN items :
      (/\ Len(UrlsOfItem(j)) > 0
       /\ \A h \in DOMAIN UrlsOfItem(j) :
            /\ MetaOf(UrlsOfItem(j)[h]).title = "null"
            /\ MetaOf(UrlsOfItem(j)[h]).description = "null")
        => \A e \in enrichments : e.id # items[j].id

RECURSIVE ChunkChars(_)
ChunkChars(c) ==
  IF c = <<>> THEN 0
  ELSE Head(c).len + Head(c).dots + (IF Len(c) > 1 THEN 1 ELSE 0) + ChunkChars(Tail(c))

(* The pieces of the line tagged t in the returned chunks. *)
PiecesOf(t) ==
  {<<m, h>> \in (DOMAIN chunks) \X (1..(MaxLines + 1)) :
     h \in DOMAIN chunks[m] /\ chunks[m][h].tag = t}

(* C28: every chunk splitForField returns is at most 1024 characters long, *)
(* a line of at most 1024 characters is whole in the one chunk that holds  *)
(* it, and only a line longer than 1024 is cut.                            *)
C28_SplitAtLineBoundaries ==
  pc = "split_done" =>
    /\ \A m \in DOMAIN chunks : ChunkChars(chunks[m]) <= MAX_FIELD_LENGTH
    /\ \A j \in DOMAIN inputText :
         inputText[j].of <= MAX_FIELD_LENGTH =>
           /\ Cardinality(PiecesOf(j)) <= 1
           /\ \A q \in PiecesOf(j) : chunks[q[1]][q[2]] = inputText[j]
    /\ \A m \in DOMAIN chunks : \A h \in DOMAIN chunks[m] :
         chunks[m][h].len < chunks[m][h].of => chunks[m][h].of > MAX_FIELD_LENGTH

C28_Witness ==
  /\ pc = "split_done"
  /\ Len(inputText) = 4
  /\ inputText[1].of = 683
  /\ inputText[2].of = 340
  /\ inputText[3].of = 2500
  /\ inputText[4].of = 340
  /\ Len(chunks) = 4
  /\ Len(chunks[1]) = 2
  /\ chunks[2][1].len = MAX_FIELD_LENGTH
  /\ chunks[4][1].off = 2048
  /\ Len(chunks[4]) = 2

(* The characters of an embed: its title, its description, the name and    *)
(* the value of every field, and its footer.                               *)
RECURSIVE FieldsTotal(_)
FieldsTotal(fields) ==
  IF fields = <<>> THEN 0
  ELSE Head(fields).nameLen + Head(fields).len + FieldsTotal(Tail(fields))

EmbedTotal(e) == e.title + e.description + FieldsTotal(e.fields) + e.footer

RECURSIVE AllFields(_)
AllFields(es) == IF es = <<>> THEN <<>> ELSE Head(es).fields \o AllFields(Tail(es))

(* Where the lines that hold characters stand: embed, field, item text, line. *)
InkAt(es) ==
  UNION {UNION {UNION {{<<e, f, c, l>> : l \in {h \in DOMAIN es[e].fields[f].chunks[c] :
                                                 es[e].fields[f].chunks[c][h].of > 0}} :
                       c \in DOMAIN es[e].fields[f].chunks} :
                f \in DOMAIN es[e].fields} :
         e \in DOMAIN es}

LineAt(es, p) == es[p[1]].fields[p[2]].chunks[p[3]][p[4]]

RECURSIVE SumLens(_)
SumLens(S) ==
  IF S = {} THEN 0
  ELSE LET x == CHOOSE y \in S : TRUE IN x[2] + SumLens(S \ {x})

(* The characters of a line of an item that the embeds hold. *)
Emitted(es, id, part, k) ==
  SumLens({<<LineAt(es, p).off, LineAt(es, p).len>> :
             p \in {q \in InkAt(es) : LineAt(es, q).tag = [item |-> id, part |-> part, k |-> k]}})

CountOf(c) == Len(SelectSeq(analyses, LAMBDA a : a.category = c))

ItemsIn(es) == {LineAt(es, p).tag.item : p \in InkAt(es)}

SectionsOf(es, id) == {<<p[1], p[2]>> : p \in {q \in InkAt(es) : LineAt(es, q).tag.item = id}}

(* C24: the value of every section buildDigestEmbeds emits is at most     *)
(* 1024 characters long.                                                  *)
C24_SectionValueWithinField ==
  /\ \A e \in DOMAIN embeds : \A f \in DOMAIN embeds[e].fields :
       embeds[e].fields[f].len <= MAX_FIELD_LENGTH
  /\ \A f \in DOMAIN currentEmbed.fields : currentEmbed.fields[f].len <= MAX_FIELD_LENGTH

C24_Witness ==
  /\ pc = "formatted"
  /\ \E e \in DOMAIN embeds : \E f \in DOMAIN embeds[e].fields :
       embeds[e].fields[f].len = MAX_FIELD_LENGTH
  /\ \E e \in DOMAIN embeds : \E f \in DOMAIN embeds[e].fields :
       Len(embeds[e].fields[f].chunks) > 1

(* C25: the content of every embed buildDigestEmbeds returns, title,      *)
(* section names, section values and the footer of the last one together, *)
(* is at most 5800 characters long.                                       *)
C25_UnitWithinTotal ==
  \A e \in DOMAIN embeds : EmbedTotal(embeds[e]) <= MAX_EMBED_TOTAL

(* C26: the sections together hold the summary of every result and every  *)
(* one of its suggested actions in full.                                   *)
C26_NothingDroppedOrShortened ==
  pc = "formatted" /\ analyses # <<>> =>
    \A n \in DOMAIN analyses :
      /\ Emitted(embeds, analyses[n].bookmarkId, "summary", 0)
           = analyses[n].summary + analyses[n].authorUsername + 8
      /\ \A k \in DOMAIN analyses[n].actions :
           analyses[n].actions[k] > 0 =>
             Emitted(embeds, analyses[n].bookmarkId, "action", k)
               = analyses[n].actions[k] + 2

(* C27: the sections of one category follow one another, the categories   *)
(* come in non-increasing order of their number of items, and when the    *)
(* caller keeps the first 10 embeds every item it drops is of a category  *)
(* with no more items than the category of any item it keeps.             *)
C27_CategoriesInOrderOfSize ==
  pc = "sent" /\ analyses # <<>> =>
    LET F == AllFields(embeds)
    IN  /\ \A a \in DOMAIN F : \A b \in DOMAIN F :
             a < b /\ F[a].name = F[b].name => F[a + 1].name = F[a].name
        /\ \A a \in DOMAIN F : \A b \in DOMAIN F :
             a < b => CountOf(F[a].name) >= CountOf(F[b].name)
        /\ \A x \in ItemsIn(SubSeq(embeds, Len(sent) + 1, Len(embeds))) :
             \A y \in ItemsIn(sent) :
               CountOf(analyses[x].category) <= CountOf(analyses[y].category)

C27_Witness ==
  /\ pc = "sent"
  /\ Len(sent) = MAX_EMBEDS_PER_MESSAGE
  /\ Len(embeds) > Len(sent)
  /\ \E x \in ItemsIn(SubSeq(embeds, Len(sent) + 1, Len(embeds))) :
       \E y \in ItemsIn(sent) : analyses[x].category # analyses[y].category
  /\ \E a \in DOMAIN AllFields(embeds) : \E b \in DOMAIN AllFields(embeds) :
       a < b /\ AllFields(embeds)[a].name = AllFields(embeds)[b].name

(* C29: a result whose takeaway is a single line of 2000 characters is    *)
(* rendered across exactly 2 sections.                                    *)
C29_LongTakeawayInTwoSections ==
  pc = "formatted" =>
    \A n \in DOMAIN analyses :
      analyses[n].keyTakeaway = 2000 =>
        Cardinality(SectionsOf(embeds, analyses[n].bookmarkId)) = 2

(* C30: a bookmark a scheduled run has analysed for a user is reported as *)
(* already analysed for that user, and a later scheduled run of the user  *)
(* analyses none of the bookmarks an earlier one analysed.                *)
C30_ScheduledRunsSkipAnalysed ==
  /\ \A a \in DOMAIN schedLog :
       schedLog[a].kind = "scheduled" =>
         hasBeenAnalyzed(RowsOfUser(store, schedLog[a].user), schedLog[a].analysed)
           = {schedLog[a].analysed[j] : j \in DOMAIN schedLog[a].analysed}
  /\ \A a \in DOMAIN schedLog : \A b \in DOMAIN schedLog :
       /\ a < b
       /\ schedLog[a].kind = "scheduled"
       /\ schedLog[b].kind = "scheduled"
       /\ schedLog[a].user = schedLog[b].user
       => {schedLog[a].analysed[j] : j \in DOMAIN schedLog[a].analysed}
            \cap {schedLog[b].analysed[j] : j \in DOMAIN schedLog[b].analysed} = {}

(* C34: when the service call of a batch is issued, the tokens consumed   *)
(* in the window plus the estimated cost of the batch are at most 5600,   *)
(* also for a batch whose estimated cost alone exceeds the limit.         *)
C34_IssuedWithinLimit ==
  pc = "call1" => tokensUsed + estimated <= TOKEN_LIMIT_PER_MINUTE

(* C38: every analysis a /bookmark-digest run has persisted is held by    *)
(* one of the embeds the run hands to the transport.                      *)
C38_PersistedAreDisplayed ==
  pc = "sent" => StoredIds(store) \subseteq ItemsIn(sent)

(* What a run analyses when only the user's own saved bookmarks count. *)
OwnNew(r) == Take(SelectSeq(r.fetched, LAMBDA b : b \notin r.seen), r.target)

(* C33: deduplication is per user. Whatever the interleaving of the runs   *)
(* of two users, hasBeenAnalyzed reports for a user what the user's own   *)
(* runs have saved, and a run of the user analyses what it would analyse  *)
(* had the other user done nothing: the first bookmarks, up to its        *)
(* target, that the user's own runs had not saved when it began.          *)
C33_DedupPerUser ==
  /\ \A u \in Users :
       hasBeenAnalyzed(RowsOfUser(store, u), source[u]) = saved[u]
  /\ \A k \in DOMAIN runs : runs[k].new = OwnNew(runs[k])

C33_Witness ==
  \E a \in DOMAIN runs : \E b \in DOMAIN runs :
    /\ runs[a].user # runs[b].user
    /\ runs[a].kind = "manual"
    /\ runs[a].pc = "done"
    /\ runs[a].new # <<>>
    /\ a < b
    /\ runs[b].pc = "calling"
    /\ runs[b].seen = {}
    /\ \E j \in DOMAIN runs[a].new : \E h \in DOMAIN runs[b].new :
         runs[a].new[j] = runs[b].new[h]
    /\ \E x \in store : x.discordUserId = runs[a].user

(* C35: two batches that digest runs at overlapping times submit within   *)
(* one 62 s window have estimated costs of at most 5600 together.         *)
C35_OverlappingRunsWithinLimit ==
  \A a \in DOMAIN submitted : \A b \in DOMAIN submitted :
    /\ submitted[a].run # submitted[b].run
    /\ submitted[a].at <= submitted[b].at
    /\ submitted[b].at - submitted[a].at < TOKEN_WINDOW_MS
    => submitted[a].est + submitted[b].est <= TOKEN_LIMIT_PER_MINUTE

(* C36: no bookmark of a user is submitted to the service by two digest   *)
(* runs of that user, one of them at least a /bookmark-digest command.    *)
C36_NoBookmarkSubmittedTwice ==
  \A a \in DOMAIN submitted : \A b \in DOMAIN submitted :
    /\ submitted[a].run # submitted[b].run
    /\ submitted[a].user = submitted[b].user
    /\ "manual" \in {submitted[a].kind, submitted[b].kind}
    => {submitted[a].ids[j] : j \in DOMAIN submitted[a].ids}
         \cap {submitted[b].ids[j] : j \in DOMAIN submitted[b].ids} = {}

(* C37: at any moment of a pipeline run at most one bird read worker is   *)
(* alive, counting the workers of the enricher's status-URL path: a fetch  *)
(* in state "bird" has a live worker.                                      *)
C37_OneReadWorkerAlive ==
  Cardinality({k \in DOMAIN fetches : fetches[k].state = "bird"}) <= 1

EventsOf(k, u, what) ==
  {n \in DOMAIN schedLog :
     /\ schedLog[n].tick = k
     /\ schedLog[n].user = u
     /\ schedLog[n].event \in what}

(* C31: a tick that has walked its whole list has started a run for every  *)
(* scheduled user whose cron expression matches the minute, hour and       *)
(* weekday at which the tick fired.                                        *)
C31_EveryDueUserIsRun ==
  \A k \in DOMAIN ticks :
    ticks[k].pos > Len(ticks[k].scheduledUsers) =>
      \A j \in DOMAIN ticks[k].scheduledUsers :
        shouldRunNow(ticks[k].scheduledUsers[j].cron, ticks[k].at) =>
          EventsOf(k, ticks[k].scheduledUsers[j].discord_id, {"start"}) # {}

(* C32: a scheduled run is started for a user only while the user's        *)
(* schedule is stored: after a disable none is started until an enable.    *)
C32_NoRunAfterDisable ==
  [][\A n \in DOMAIN schedLog' :
       (n > Len(schedLog) /\ schedLog'[n].event = "start") =>
         IsScheduled(users, schedLog'[n].user)]_vars

Failures == RunOutcomes \ {"ok"}

PositionOf(k, u) ==
  CHOOSE j \in DOMAIN ticks[k].scheduledUsers : ticks[k].scheduledUsers[j].discord_id = u

(* C39: when the run of a user fails in a tick, fetch, batch or send, the  *)
(* tick goes on to the users after: each of them is checked, and run when  *)
(* due, as the tick reaches it; and the ticks of later minutes still fire. *)
C39_FailureStopsNeitherTickNorCron ==
  \A n \in DOMAIN schedLog :
    schedLog[n].event \in Failures =>
      LET k    == schedLog[n].tick
          tick == ticks[k]
          j    == PositionOf(k, schedLog[n].user)
      IN  /\ tick.pos > j
          /\ \A later \in DOMAIN tick.scheduledUsers :
               (later > j /\ later < tick.pos) =>
                 \E m \in EventsOf(k, tick.scheduledUsers[later].discord_id,
                                   {"start", "skip"}) : m > n
          /\ tick.pos <= Len(tick.scheduledUsers) =>
               \E m \in EventsOf(k, tick.scheduledUsers[tick.pos].discord_id,
                                 {"start"}) : m > n
          /\ now > schedLog[n].at => \E k2 \in DOMAIN ticks : ticks[k2].at > schedLog[n].at

C39_Witness ==
  \E n, m \in DOMAIN schedLog :
    /\ schedLog[n].event \in Failures
    /\ m > n
    /\ schedLog[m].event = "start"
    /\ schedLog[m].tick = schedLog[n].tick
    /\ schedLog[m].user # schedLog[n].user
    /\ \E k2 \in DOMAIN ticks : ticks[k2].at > schedLog[n].at

(* C40: every user with a stored schedule, channel and cron, has stored    *)
(* auth tokens.                                                            *)
C40_ScheduledUsersHaveTokens ==
  \A u \in Users :
    (users[u].schedule_channel_id # NULL /\ users[u].schedule_cron # NULL) =>
      (users[u].encrypted_auth_token # NULL /\ users[u].encrypted_ct0 # NULL)

C40_Witness ==
  \E u \in Users :
    /\ users # <<>>
    /\ users[u].schedule_cron = WEEKLY_CRON
    /\ users[u].schedule_channel_id # NULL
    /\ users[u].encrypted_auth_token # NULL

====
